---------------------------- MODULE Spec2Model ----------------------------
(***************************************************************************)
(* A model of the aggregation and correlation engine of ETF_Analyzer-Rust: *)
(* portfolio.rs (calculate_correlation, pearson_correlation) and the       *)
(* holdings queries of analysis.rs (filter_etfs, get_unique_assets,        *)
(* get_overlap_assets).                                                    *)
(***************************************************************************)
EXTENDS Integers, Sequences, FiniteSets, TLC

(***************************************************************************)
(* f64.  An IEEE-754 binary floating-point number with round-to-nearest,   *)
(* ties-to-even, kept at a reduced width: MantBits bits of significand     *)
(* (53 in f64), a smallest subnormal of 2^-FracBits (2^-1074 in f64) and   *)
(* ExpRange binades above the subnormal one (2046 in f64).  A finite value *)
(* is the integer number of smallest subnormals it holds; infinities and   *)
(* NaN are kept.  The sign of zero is not kept (the code never divides by  *)
(* a negative zero: its only divisors are a length and a square root).     *)
(* FracBits is at least 4 * MantBits, so that, as in f64, the product of   *)
(* two variances of values near 1.0 does not underflow.                    *)
(***************************************************************************)
MantBits == 3
FracBits == 11
ExpRange == 12

Pow2(n) == 2 ^ n

Unit == Pow2(FracBits)

Fin(v) == [c |-> "fin", v |-> v]
PosInf == [c |-> "inf", v |-> 1]
NegInf == [c |-> "inf", v |-> -1]
NaN == [c |-> "nan", v |-> 0]
Null == [c |-> "null", v |-> 0]

Zero == Fin(0)
One == Fin(Unit)

Abs(n) == IF n < 0 THEN -n ELSE n
Sgn(n) == IF n < 0 THEN -1 ELSE IF n > 0 THEN 1 ELSE 0
Inf(s) == IF s < 0 THEN NegInf ELSE PosInf

\* The binade of the magnitude a/d: the least s with a/d < 2^(MantBits+s).
RECURSIVE Binade(_, _, _)
Binade(a, d, s) ==
    IF a < Pow2(MantBits + s) * d THEN s ELSE Binade(a, d, s + 1)

\* a/d rounded to an integer, ties to even.
RoundHalfEven(a, d) ==
    LET q == a \div d
        r == a % d
    IN  IF 2 * r < d THEN q
        ELSE IF 2 * r > d THEN q + 1
        ELSE IF q % 2 = 0 THEN q ELSE q + 1

\* The f64 nearest to the rational num/den (den > 0), in smallest subnormals.
Round(num, den) ==
    LET a == Abs(num)
        s == Binade(a, den, 0)
        m == RoundHalfEven(a, den * Pow2(s))
    IN  IF s > ExpRange \/ (s = ExpRange /\ m = Pow2(MantBits))
        THEN Inf(num)
        ELSE Fin(Sgn(num) * m * Pow2(s))

\* The values of the format.
IsFloat(a) == a.c # "fin" \/ a = Round(a.v, 1)

FNeg(a) == IF a.c = "nan" THEN NaN ELSE [c |-> a.c, v |-> -a.v]

FAdd(a, b) ==
    IF a.c = "nan" \/ b.c = "nan" THEN NaN
    ELSE IF a.c = "inf" /\ b.c = "inf" THEN (IF a.v = b.v THEN a ELSE NaN)
    ELSE IF a.c = "inf" THEN a
    ELSE IF b.c = "inf" THEN b
    ELSE Round(a.v + b.v, 1)

FSub(a, b) == FAdd(a, FNeg(b))

FMul(a, b) ==
    IF a.c = "nan" \/ b.c = "nan" THEN NaN
    ELSE IF a.c = "inf" \/ b.c = "inf"
         THEN (IF a.v = 0 \/ b.v = 0 THEN NaN ELSE Inf(Sgn(a.v) * Sgn(b.v)))
    ELSE Round(a.v * b.v, Unit)

FDiv(a, b) ==
    IF a.c = "nan" \/ b.c = "nan" THEN NaN
    ELSE IF a.c = "inf"
         THEN (IF b.c = "inf" THEN NaN
               ELSE Inf(a.v * (IF b.v < 0 THEN -1 ELSE 1)))
    ELSE IF b.c = "inf" THEN Zero
    ELSE IF b.v = 0 THEN (IF a.v = 0 THEN NaN ELSE Inf(a.v))
    ELSE Round(Sgn(b.v) * a.v * Unit, Abs(b.v))

\* The binade of the square root of t: the least s with t < 4^(MantBits+s).
RECURSIVE SqrtBinade(_, _)
SqrtBinade(t, s) ==
    IF t < Pow2(2 * (MantBits + s)) THEN s ELSE SqrtBinade(t, s + 1)

FSqrt(a) ==
    IF a.c = "nan" THEN NaN
    ELSE IF a.v < 0 THEN NaN
    ELSE IF a.c = "inf" THEN PosInf
    ELSE LET t == a.v * Unit
             s == SqrtBinade(t, 0)
             g == Pow2(s)
             m == CHOOSE k \in 0..(Pow2(MantBits) - 1) :
                      (k * g) * (k * g) <= t /\ t < ((k + 1) * g) * ((k + 1) * g)
             \* t against the square of the midpoint (m + 1/2) * g
             half == (m * m + m) * g * g + (g * g) \div 4
             up == IF t > half THEN 1
                   ELSE IF t < half \/ g = 1 THEN 0
                   ELSE m % 2
         IN  Round((m + up) * g, 1)

\* `n as f64`
FromUsize(n) == Round(n * Unit, 1)

\* `a == b` of two f64: a NaN is equal to nothing, itself included.
FEq(a, b) == a.c # "nan" /\ b.c # "nan" /\ a = b

\* `a == 0.0`
IsZero(a) == FEq(a, Zero)

(***************************************************************************)
(* portfolio.rs: pearson_correlation.                                      *)
(***************************************************************************)
Ok(v) == [ok |-> TRUE, val |-> v]

\* `.unwrap_or(d)` of a Result
UnwrapOr(r, d) == IF r.ok THEN r.val ELSE d

\* `x.into_iter().flatten().collect()`: the non-null values, in row order.
Flatten(ca) == SelectSeq(ca, LAMBDA v : v.c # "null")

\* `iter().sum::<f64>()`: the values added left to right.
RECURSIVE SumFrom(_, _, _)
SumFrom(vec, i, acc) ==
    IF i > Len(vec) THEN acc ELSE SumFrom(vec, i + 1, FAdd(acc, vec[i]))

Sum(vec) == SumFrom(vec, 1, Zero)

\* The loop over `x_vec.iter().zip(y_vec.iter())`.
RECURSIVE Accumulate(_, _, _, _, _, _)
Accumulate(x_vec, y_vec, mean_x, mean_y, i, acc) ==
    IF i > Len(x_vec) \/ i > Len(y_vec) THEN acc
    ELSE LET dx == FSub(x_vec[i], mean_x)
             dy == FSub(y_vec[i], mean_y)
         IN  Accumulate(x_vec, y_vec, mean_x, mean_y, i + 1,
                 [numerator |-> FAdd(acc.numerator, FMul(dx, dy)),
                  var_x |-> FAdd(acc.var_x, FMul(dx, dx)),
                  var_y |-> FAdd(acc.var_y, FMul(dy, dy))])

\* The coefficient without the test of the two lengths: the zip stops at the
\* end of the shorter vector.
PearsonOfVecsWithoutLengthTest(x_vec, y_vec) ==
    IF Len(x_vec) = 0 THEN Ok(Zero)
    ELSE LET n == FromUsize(Len(x_vec))
             mean_x == FDiv(Sum(x_vec), n)
             mean_y == FDiv(Sum(y_vec), n)
             acc == Accumulate(x_vec, y_vec, mean_x, mean_y, 1,
                        [numerator |-> Zero, var_x |-> Zero, var_y |-> Zero])
         IN  IF IsZero(acc.var_x) \/ IsZero(acc.var_y) THEN Ok(Zero)
             ELSE Ok(FDiv(acc.numerator, FSqrt(FMul(acc.var_x, acc.var_y))))

\* The coefficient of two vectors of values, from the length check on.
PearsonOfVecs(x_vec, y_vec) ==
    IF Len(x_vec) # Len(y_vec) \/ Len(x_vec) = 0 THEN Ok(Zero)
    ELSE LET n == FromUsize(Len(x_vec))
             mean_x == FDiv(Sum(x_vec), n)
             mean_y == FDiv(Sum(y_vec), n)
             acc == Accumulate(x_vec, y_vec, mean_x, mean_y, 1,
                        [numerator |-> Zero, var_x |-> Zero, var_y |-> Zero])
         IN  IF IsZero(acc.var_x) \/ IsZero(acc.var_y) THEN Ok(Zero)
             ELSE Ok(FDiv(acc.numerator, FSqrt(FMul(acc.var_x, acc.var_y))))

\* Each column's nulls are dropped on its own, then the vectors are zipped.
DropNullsOfEach(x, y) == <<Flatten(x), Flatten(y)>>

pearson_correlation(x, y) ==
    LET v == DropNullsOfEach(x, y) IN PearsonOfVecs(v[1], v[2])

(***************************************************************************)
(* portfolio.rs: calculate_correlation.  A DataFrame is a function from    *)
(* the names of its columns to columns of one height; a column has a dtype *)
(* and its values (Null for a missing value).                              *)
(***************************************************************************)
VARIABLES
    df,           \* the table the call reads
    columns,      \* the column names the call is given
    pc,           \* where the call is: call, parallel, populate, done, panicked
    corr_matrix,  \* the matrix being built (rows and columns from 0)
    pairs,        \* the pairs (i, j), in the order they are generated
    results,      \* the collected task results, by position in pairs
    cursor,       \* the last position of results the populate loop has consumed
    ret,          \* what the caller gets: none, Ok (corr_matrix), Panic
    holdings,     \* the holdings table a query of analysis.rs reads
    query,        \* the query called and its arguments ([fn |-> "none"] before)
    out,          \* the Result the query returned
    given,        \* the options the user wrote on the command line
    args,         \* cli::Args: as parsed, then as merged with the config
    config,       \* the Config of the config file
    cpc,          \* where the arguments are: idle, start, parsed, merged
    path,         \* the extension of the path of an export (None without)
    file,         \* the file at the path: absent, old, empty, csv, parquet
    before,       \* the file at the path when export_dataframe was called
    force,        \* the force argument of export_dataframe
    response,     \* the line read from stdin (<<"(none)">> before)
    xpc,          \* where the export is: idle, check, prompt, create, write, done
    xret,         \* what export_dataframe returned: none, Ok(true), Ok(false), Err
    mpc,          \* where main is: idle, validate, load, filter, dispatch, export, done
    loaded,       \* where main loaded the table from: none, import, data_dir
    matched,      \* what --etfs left of the table: none (before), all, some, zero, err
    dispatched,   \* the branch main took for the function (none before)
    mret,         \* what main returned: none, Ok, an Err or a panic
    ipath,        \* the extension of the path import_dataframe is given
    on_disk,      \* which of that path and the one with .parquet exist
    ipc,          \* where the import is: idle, resolve, read, done
    actual_path,  \* the path the import reads: none, exact, parquet
    iret,         \* what import_dataframe returned
    files,        \* what is at each path given to load_multiple_holdings
    lresults,     \* the collected results of the parallel loads, by position
    lpc,          \* where the load is: idle, call, parallel, combine, done
    lret,         \* what load_multiple_holdings returned
    csv,          \* the file load_holdings_csv_with_config reads: name, cols, rows
    column_config,\* the ColumnConfig it is given
    hret,         \* what it returned
    portfolio,    \* the Portfolio at hand: etfs, weights, data; or NoPortfolio
    prior,        \* the Portfolio at hand before the last call
    method,       \* the last call of Portfolio, with its arguments
    pres          \* what the last call returned

corrVars == <<df, columns, pc, corr_matrix, pairs, results, cursor, ret>>

analysisVars == <<holdings, query, out>>

configVars == <<given, args, config, cpc>>

exportVars == <<path, file, before, force, response, xpc, xret>>

mainVars == <<mpc, loaded, matched, dispatched, mret>>

importVars == <<ipath, on_disk, ipc, actual_path, iret>>

loadVars == <<files, lresults, lpc, lret>>

csvVars == <<csv, column_config, hret>>

portfolioVars == <<portfolio, prior, method, pres>>

libVars == <<importVars, loadVars, csvVars, portfolioVars>>

\* The variables of the calls of portfolio.rs, analysis.rs and the binary.
baseVars == <<corrVars, analysisVars, configVars, exportVars, mainVars>>

appVars == <<configVars, exportVars, mainVars, libVars>>

vars == <<corrVars, analysisVars, appVars>>

Err == [ok |-> FALSE, val |-> Null]

\* `df.column(name)`
Column(d, name) == IF name \in DOMAIN d THEN Ok(d[name]) ELSE Err

\* `.f64()`
AsF64(col) == IF col.dtype = "f64" THEN Ok(col.vals) ELSE Err

\* `vec![vec![0.0; n]; n]` with the diagonal set to 1.0
InitialMatrix(n) ==
    [i \in 0..(n - 1) |-> [j \in 0..(n - 1) |-> IF i = j THEN One ELSE Zero]]

RECURSIVE PairsUpFrom(_, _, _)
PairsUpFrom(i, j, n) ==
    IF i >= n THEN << >>
    ELSE IF j >= n THEN PairsUpFrom(i + 1, i + 2, n)
    ELSE << <<i, j>> >> \o PairsUpFrom(i, j + 1, n)

\* A generator that starts j at i instead of i + 1.
RECURSIVE PairsFromDiagonal(_, _, _)
PairsFromDiagonal(i, j, n) ==
    IF i >= n THEN << >>
    ELSE IF j >= n THEN PairsFromDiagonal(i + 1, i + 1, n)
    ELSE << <<i, j>> >> \o PairsFromDiagonal(i, j + 1, n)

PairsWithDiagonal(n) == PairsFromDiagonal(0, 0, n)

\* A generator of every ordered pair of two different columns.
RECURSIVE PairsBothWaysFrom(_, _, _)
PairsBothWaysFrom(i, j, n) ==
    IF i >= n THEN << >>
    ELSE IF j >= n THEN PairsBothWaysFrom(i + 1, 0, n)
    ELSE IF i = j THEN PairsBothWaysFrom(i, j + 1, n)
    ELSE << <<i, j>> >> \o PairsBothWaysFrom(i, j + 1, n)

PairsBothWays(n) == PairsBothWaysFrom(0, 0, n)

\* `(0..n).flat_map(|i| ((i + 1)..n).map(move |j| (i, j))).collect()`
Pairs(n) == PairsUpFrom(0, 1, n)

\* One of the two `df.column(columns[*i]).unwrap().f64().unwrap()` of a task:
\* an Err is a panic.
Series(d, cols, i) ==
    LET col == Column(d, cols[i + 1])
    IN  IF col.ok THEN AsF64(col.val) ELSE Err

TaskPanics(d, cols, p) == ~ Series(d, cols, p[1]).ok \/ ~ Series(d, cols, p[2]).ok

\* What the task of pair p returns: ((i, j), corr).
TaskResult(d, cols, p) ==
    [pair |-> p,
     corr |-> UnwrapOr(pearson_correlation(Series(d, cols, p[1]).val,
                                           Series(d, cols, p[2]).val), Zero)]

\* A fan-in that starts the reduction as soon as one result is there.
SomeTaskDone(res, ps) == DOMAIN res # {}

\* `.collect()` returns when every task has returned.
AllTasksDone(res, ps) == DOMAIN res = 1..Len(ps)

\* A loop body that fills the upper triangle only.
PopulateUpperOnly(m, r) ==
    [m EXCEPT ![r.pair[1]][r.pair[2]] = r.corr]

\* `corr_matrix[i][j] = corr; corr_matrix[j][i] = corr;`
PopulateCell(m, r) ==
    [m EXCEPT ![r.pair[1]][r.pair[2]] = r.corr, ![r.pair[2]][r.pair[1]] = r.corr]

\* The results the populate loop has not consumed yet.
Remaining == {k \in DOMAIN results : k > cursor}

Min(S) == CHOOSE k \in S : \A l \in S : k <= l

\* Lines 93-104: the matrix with its diagonal, and the pairs.
Setup ==
    /\ pc = "call"
    /\ corr_matrix' = InitialMatrix(Len(columns))
    /\ pairs' = Pairs(Len(columns))
    /\ pc' = "parallel"
    /\ UNCHANGED <<df, columns, results, cursor, ret>>
    /\ UNCHANGED <<analysisVars, appVars>>

\* A task that also stores its coefficient in the matrix as it returns.
RunTaskWritingMatrix(k) ==
    /\ pc = "parallel"
    /\ k \in (1..Len(pairs)) \ DOMAIN results
    /\ ~ TaskPanics(df, columns, pairs[k])
    /\ results' = results @@ (k :> TaskResult(df, columns, pairs[k]))
    /\ corr_matrix' = PopulateCell(corr_matrix, TaskResult(df, columns, pairs[k]))
    /\ UNCHANGED <<df, columns, pc, pairs, cursor, ret>>
    /\ UNCHANGED <<analysisVars, appVars>>

\* Lines 109-114: the task of one pair runs to its end, whenever the pool
\* schedules it, and its result is collected at the pair's position.
RunTask(k) ==
    /\ pc = "parallel"
    /\ k \in (1..Len(pairs)) \ DOMAIN results
    /\ ~ TaskPanics(df, columns, pairs[k])
    /\ results' = results @@ (k :> TaskResult(df, columns, pairs[k]))
    /\ UNCHANGED <<df, columns, pc, corr_matrix, pairs, cursor, ret>>
    /\ UNCHANGED <<analysisVars, appVars>>

\* Lines 110-111: an unwrap of an Err panics; the pool re-raises the panic
\* in the caller.
TaskPanic(k) ==
    /\ pc = "parallel"
    /\ k \in (1..Len(pairs)) \ DOMAIN results
    /\ TaskPanics(df, columns, pairs[k])
    /\ pc' = "panicked"
    /\ ret' = "Panic"
    /\ UNCHANGED <<df, columns, corr_matrix, pairs, results, cursor>>
    /\ UNCHANGED <<analysisVars, appVars>>

\* Line 115: the parallel phase ends.
Collected ==
    /\ pc = "parallel"
    /\ AllTasksDone(results, pairs)
    /\ pc' = "populate"
    /\ UNCHANGED <<df, columns, corr_matrix, pairs, results, cursor, ret>>
    /\ UNCHANGED <<analysisVars, appVars>>

\* Lines 118-121: one iteration of `for ((i, j), corr) in results`.
PopulateStep ==
    /\ pc = "populate"
    /\ Remaining # {}
    /\ corr_matrix' = PopulateCell(corr_matrix, results[Min(Remaining)])
    /\ cursor' = Min(Remaining)
    /\ UNCHANGED <<df, columns, pc, pairs, results, ret>>
    /\ UNCHANGED <<analysisVars, appVars>>

\* Line 123: `Ok(corr_matrix)`.
Return ==
    /\ pc = "populate"
    /\ Remaining = {}
    /\ pc' = "done"
    /\ ret' = "Ok"
    /\ UNCHANGED <<df, columns, corr_matrix, pairs, results, cursor>>
    /\ UNCHANGED <<analysisVars, appVars>>

calculate_correlation ==
    \/ Setup
    \/ \E k \in 1..Len(pairs) : RunTask(k)
    \/ \E k \in 1..Len(pairs) : TaskPanic(k)
    \/ Collected
    \/ PopulateStep
    \/ Return

(***************************************************************************)
(* analysis.rs: the holdings queries.  A holdings DataFrame is its column  *)
(* names, in order, and its rows; a row holds a str (or NullStr, a missing *)
(* value) under each of ETF, Symbol, Name and Weight.                      *)
(***************************************************************************)
NullStr == "(null)"

\* `to_uppercase()`
Upper(s) ==
    CASE s = "spy" -> "SPY"
      [] s = "qqq" -> "QQQ"
      [] OTHER -> s

\* The byte order of str values; a null sorts first (nulls_last is false).
SortedStrs == <<NullStr, "AAPL", "MSFT", "QQQ", "SPY", "qqq", "spy">>

Rank(s) == CHOOSE i \in 1..Len(SortedStrs) : SortedStrs[i] = s

\* `df.filter(&mask)`: the rows whose mask is true, in row order.
Filter(rows, mask) ==
    LET f[r \in 0..Len(rows)] ==
            IF r = 0 THEN << >>
            ELSE IF mask[r] THEN Append(f[r - 1], rows[r]) ELSE f[r - 1]
    IN  f[Len(rows)]

\* `.join(sep)` of a list of strs
RECURSIVE Join(_, _)
Join(tokens, sep) ==
    IF Len(tokens) = 0 THEN ""
    ELSE IF Len(tokens) = 1 THEN tokens[1]
    ELSE tokens[1] \o sep \o Join(Tail(tokens), sep)

\* A filter that compares the ETF of a row as it is written.
filter_etfs_case_sensitive(d, etf_symbols) ==
    IF Len(etf_symbols) = 0 THEN Ok(d)
    ELSE LET etf_symbols_upper ==
                 [i \in DOMAIN etf_symbols |-> Upper(etf_symbols[i])]
             mask == [r \in 1..Len(d.rows) |->
                         \E i \in DOMAIN etf_symbols_upper :
                             /\ d.rows[r].ETF # NullStr
                             /\ d.rows[r].ETF = etf_symbols_upper[i]]
         IN  Ok([cols |-> d.cols, rows |-> Filter(d.rows, mask)])

\* A filter that has no early return for an empty list.
filter_etfs_without_early_return(d, etf_symbols) ==
    LET etf_symbols_upper == [i \in DOMAIN etf_symbols |-> Upper(etf_symbols[i])]
        mask == [r \in 1..Len(d.rows) |->
                    \E i \in DOMAIN etf_symbols_upper :
                        /\ d.rows[r].ETF # NullStr
                        /\ Upper(d.rows[r].ETF) = etf_symbols_upper[i]]
    IN  Ok([cols |-> d.cols, rows |-> Filter(d.rows, mask)])

filter_etfs(d, etf_symbols) ==
    IF Len(etf_symbols) = 0 THEN Ok(d)
    ELSE LET etf_symbols_upper ==
                 [i \in DOMAIN etf_symbols |-> Upper(etf_symbols[i])]
             mask == [r \in 1..Len(d.rows) |->
                         \E i \in DOMAIN etf_symbols_upper :
                             /\ d.rows[r].ETF # NullStr
                             /\ Upper(d.rows[r].ETF) = etf_symbols_upper[i]]
         IN  Ok([cols |-> d.cols, rows |-> Filter(d.rows, mask)])

\* `group_by([col("Symbol")])`: one group for each value of Symbol, a null
\* being a value; a group is its rows' numbers.
GroupKeys(d) == {d.rows[r].Symbol : r \in 1..Len(d.rows)}

Group(d, key) == {r \in 1..Len(d.rows) : d.rows[r].Symbol = key}

\* `col("ETF").n_unique()`: the number of different values, a null being one.
NUnique(d, key) == Cardinality({d.rows[r].ETF : r \in Group(d, key)})

\* A classifier that keeps every symbol some ETF holds.
UniqueSymbolSetAtLeastOne(d) ==
    {key \in GroupKeys(d) : NUnique(d, key) >= 1} \ {NullStr}

\* The symbols of the groups with ETF_Count == 1 (`.flatten()` drops a null).
UniqueSymbolSet(d) ==
    {key \in GroupKeys(d) : NUnique(d, key) = 1} \ {NullStr}

\* `df.select(cols)`: the columns named, in the order named.
Select(d, cols) ==
    [cols |-> cols,
     rows |-> [r \in 1..Len(d.rows) |->
                 [c \in {cols[i] : i \in 1..Len(cols)} |-> d.rows[r][c]]]]

\* A query that returns the filtered table with the columns it has.
get_unique_assets_without_select(d) ==
    LET unique_symbol_set == UniqueSymbolSet(d)
        mask == [r \in 1..Len(d.rows) |->
                    /\ d.rows[r].Symbol # NullStr
                    /\ d.rows[r].Symbol \in unique_symbol_set]
    IN  Ok([cols |-> d.cols, rows |-> Filter(d.rows, mask)])

get_unique_assets(d) ==
    LET unique_symbol_set == UniqueSymbolSet(d)
        mask == [r \in 1..Len(d.rows) |->
                    /\ d.rows[r].Symbol # NullStr
                    /\ d.rows[r].Symbol \in unique_symbol_set]
        result == [cols |-> d.cols, rows |-> Filter(d.rows, mask)]
    IN  Ok(Select(result, <<"Symbol", "Name", "Weight", "ETF">>))

\* `col("Name").first()`: the Name of the first row of the group.
FirstName(d, key) == d.rows[Min(Group(d, key))].Name

\* `col("ETF").implode().flatten()`, then the non-null values joined: the ETF
\* of every row of the group, in row order.
EtfsOfRows(d, key) ==
    LET mask == [r \in 1..Len(d.rows) |->
                    r \in Group(d, key) /\ d.rows[r].ETF # NullStr]
        kept == Filter(d.rows, mask)
    IN  [i \in 1..Len(kept) |-> kept[i].ETF]

\* `sort(["Symbol"])`, or `sort(["ETF_Count", "Symbol"])` with
\* `with_order_descending_multi([true, false])`.
Before(a, b, sort_by) ==
    IF sort_by = "EtfCount" /\ a.ETF_Count # b.ETF_Count
    THEN a.ETF_Count > b.ETF_Count
    ELSE Rank(a.Symbol) < Rank(b.Symbol)

\* The rows of a set (one for each Symbol) in sorted order.
RECURSIVE Sorted(_, _)
Sorted(S, sort_by) ==
    IF S = {} THEN << >>
    ELSE LET first == CHOOSE a \in S : \A b \in S \ {a} : Before(a, b, sort_by)
         IN  <<first>> \o Sorted(S \ {first}, sort_by)

\* `col("ETF").unique()`, then the non-null values joined: the different ETFs
\* of the group, each once, in an order unique() does not fix (etf_order
\* lists the strs in the order this run meets them).
UniqueEtfs(d, key, etf_order) ==
    LET held == {d.rows[r].ETF : r \in Group(d, key)} \ {NullStr}
        f[i \in 0..Len(etf_order)] ==
            IF i = 0 THEN << >>
            ELSE IF etf_order[i] \in held THEN Append(f[i - 1], etf_order[i])
            ELSE f[i - 1]
    IN  f[Len(etf_order)]

\* A count of the rows of the group.
RowCount(d, key) == Cardinality(Group(d, key))

\* `.agg([...])`: what a group's row holds of its count.
EtfCount(d, key) == NUnique(d, key)

\* A sort by Symbol whatever the mode.
SortRowsBySymbolOnly(S, sort_by) == Sorted(S, "Symbol")

\* `match sort_by { ... }`: the sorted rows of the result.
SortRows(S, sort_by) == Sorted(S, sort_by)

aggregate_assets(d, sort_by, etf_order) ==
    LET grouped == {[Symbol |-> key,
                     Name |-> FirstName(d, key),
                     ETF_Count |-> EtfCount(d, key),
                     ETFs |-> Join(UniqueEtfs(d, key, etf_order), ", ")] :
                       key \in GroupKeys(d)}
    IN  Ok([cols |-> <<"Symbol", "Name", "ETF_Count", "ETFs">>,
            rows |-> SortRows(grouped, sort_by)])

get_asset_mapping(d, sort_by, etf_order) == aggregate_assets(d, sort_by, etf_order)

get_overlap_assets(d, sort_by) ==
    LET grouped == {[Symbol |-> key,
                     Name |-> FirstName(d, key),
                     ETF_Count |-> EtfCount(d, key),
                     ETFs |-> Join(EtfsOfRows(d, key), ", ")] : key \in GroupKeys(d)}
        overlap_df == {g \in grouped : g.ETF_Count > 1}
    IN  Ok([cols |-> <<"Symbol", "Name", "ETF_Count", "ETFs">>,
            rows |-> SortRows(overlap_df, sort_by)])

\* The strs of a set in ascending order (a BTreeSet, or a sort of one column).
RECURSIVE Ascending(_)
Ascending(S) ==
    IF S = {} THEN << >>
    ELSE LET first == CHOOSE a \in S : \A b \in S \ {a} : Rank(a) < Rank(b)
         IN  <<first>> \o Ascending(S \ {first})

Max(S) == CHOOSE k \in S : \A l \in S : k >= l

\* A weight map whose key holds the ETF as the row writes it.
WeightOfEtfAsWritten(filtered, symbol, etf_upper) ==
    LET hits == {i \in 1..Len(filtered) :
                    filtered[i].Symbol = symbol /\ filtered[i].ETF = etf_upper}
    IN  IF hits = {} THEN "N/A" ELSE filtered[Max(hits)].Weight

\* Lines 502-538: `weight_map.get(&(symbol, etf_upper))` after the inserts of
\* the loop over the filtered rows (a later insert replaces an earlier one),
\* or "N/A".
WeightOf(filtered, symbol, etf_upper) ==
    LET hits == {i \in 1..Len(filtered) :
                    filtered[i].Symbol = symbol /\ Upper(filtered[i].ETF) = etf_upper}
    IN  IF hits = {} THEN "N/A" ELSE filtered[Max(hits)].Weight

\* `result.with_column(series)` for each ETF asked for: a column of a name the
\* result has already replaces that column.
ComparisonColumns(etfs) ==
    LET f[i \in 0..Len(etfs)] ==
            IF i = 0 THEN <<"Symbol">>
            ELSE IF \E k \in 1..Len(f[i - 1]) : f[i - 1][k] = Upper(etfs[i])
                 THEN f[i - 1]
                 ELSE Append(f[i - 1], Upper(etfs[i]))
    IN  f[Len(etfs)]

get_etf_comparison(d, etfs) ==
    LET etf_set == {Upper(etfs[i]) : i \in 1..Len(etfs)}
        mask == [r \in 1..Len(d.rows) |->
                    d.rows[r].ETF # NullStr /\ Upper(d.rows[r].ETF) \in etf_set]
        filtered == Filter(d.rows, mask)
        unique_symbols == {filtered[i].Symbol : i \in 1..Len(filtered)} \ {NullStr}
        symbols_vec == Ascending(unique_symbols)
        cols == ComparisonColumns(etfs)
    IN  IF Len(filtered) = 0 THEN Err
        ELSE Ok([cols |-> cols,
                 rows |-> [i \in 1..Len(symbols_vec) |->
                              [c \in {cols[k] : k \in 1..Len(cols)} |->
                                  IF c = "Symbol" THEN symbols_vec[i]
                                  ELSE WeightOf(filtered, symbols_vec[i], c)]]])

\* `group_by([col("ETF")])`: the rows of one ETF, a null being a value.
EtfKeys(d) == {d.rows[r].ETF : r \in 1..Len(d.rows)}

EtfGroup(d, key) == {r \in 1..Len(d.rows) : d.rows[r].ETF = key}

\* A count of the rows of the group, null Symbols too.
SymbolLen(d, key) == Cardinality(EtfGroup(d, key))

\* `col("Symbol").count()`: the number of values that are not null.
SymbolCount(d, key) ==
    Cardinality({r \in EtfGroup(d, key) : d.rows[r].Symbol # NullStr})

\* `col("Symbol").implode().flatten()`, then the non-null values: the Symbol
\* of every row of the group, in row order.
SymbolsOfRows(d, key) ==
    LET mask == [r \in 1..Len(d.rows) |->
                    r \in EtfGroup(d, key) /\ d.rows[r].Symbol # NullStr]
        kept == Filter(d.rows, mask)
    IN  [i \in 1..Len(kept) |-> kept[i].Symbol]

\* `sort(["ETF"], SortMultipleOptions::default())`
RECURSIVE SortByEtf(_)
SortByEtf(S) ==
    IF S = {} THEN << >>
    ELSE LET first == CHOOSE a \in S : \A b \in S \ {a} : Rank(a.ETF) < Rank(b.ETF)
         IN  <<first>> \o SortByEtf(S \ {first})

get_etf_summary(d) ==
    LET grouped == {[ETF |-> key,
                     Asset_Count |-> SymbolCount(d, key),
                     Assets |-> Join(SymbolsOfRows(d, key), ", ")] : key \in EtfKeys(d)}
    IN  Ok([cols |-> <<"ETF", "Asset_Count", "Assets">>, rows |-> SortByEtf(grouped)])

CallGetEtfComparison(etfs) ==
    /\ query.fn = "none"
    /\ query' = [fn |-> "get_etf_comparison", etfs |-> etfs]
    /\ out' = get_etf_comparison(holdings, etfs)
    /\ UNCHANGED <<holdings, corrVars, appVars>>

CallGetEtfSummary ==
    /\ query.fn = "none"
    /\ query' = [fn |-> "get_etf_summary"]
    /\ out' = get_etf_summary(holdings)
    /\ UNCHANGED <<holdings, corrVars, appVars>>

CallAggregateAssets(sort_by, etf_order) ==
    /\ query.fn = "none"
    /\ query' = [fn |-> "aggregate_assets", sort_by |-> sort_by]
    /\ out' = aggregate_assets(holdings, sort_by, etf_order)
    /\ UNCHANGED <<holdings, corrVars, appVars>>

CallGetAssetMapping(sort_by, etf_order) ==
    /\ query.fn = "none"
    /\ query' = [fn |-> "get_asset_mapping", sort_by |-> sort_by]
    /\ out' = get_asset_mapping(holdings, sort_by, etf_order)
    /\ UNCHANGED <<holdings, corrVars, appVars>>

CallFilterEtfs(etf_symbols) ==
    /\ query.fn = "none"
    /\ query' = [fn |-> "filter_etfs", etf_symbols |-> etf_symbols]
    /\ out' = filter_etfs(holdings, etf_symbols)
    /\ UNCHANGED <<holdings, corrVars, appVars>>

CallGetUniqueAssets ==
    /\ query.fn = "none"
    /\ query' = [fn |-> "get_unique_assets"]
    /\ out' = get_unique_assets(holdings)
    /\ UNCHANGED <<holdings, corrVars, appVars>>

CallGetOverlapAssets(sort_by) ==
    /\ query.fn = "none"
    /\ query' = [fn |-> "get_overlap_assets", sort_by |-> sort_by]
    /\ out' = get_overlap_assets(holdings, sort_by)
    /\ UNCHANGED <<holdings, corrVars, appVars>>

(***************************************************************************)
(* cli.rs and config.rs: the command line and the config file.  An Option  *)
(* is None or Some(v).                                                     *)
(***************************************************************************)
None == [some |-> FALSE]

Some(v) == [some |-> TRUE, val |-> v]

\* `#[arg(..., default_value = d)]`: the value written, or the default.
OrDefault(opt, d) == IF opt.some THEN opt.val ELSE d

\* `Args::parse()`: an Option field is what the user wrote, if anything; a
\* field with a default_value has that when the user wrote nothing; a bool
\* field is whether the flag was written.
parse_args(g) ==
    [data_dir |-> g.data_dir,
     import |-> g.import,
     function |-> OrDefault(g.function, "summary"),
     output |-> g.output,
     force |-> g.force,
     sort_by |-> OrDefault(g.sort_by, "symbol"),
     etfs |-> g.etfs,
     symbol_col |-> g.symbol_col,
     name_col |-> g.name_col,
     weight_col |-> g.weight_col,
     shares_col |-> g.shares_col,
     number_col |-> g.number_col,
     verbose |-> g.verbose]

\* `if cli_args.f.is_none() { cli_args.f = self.f.clone(); }`
IfNone(cli_value, config_value) ==
    IF ~ cli_value.some THEN config_value ELSE cli_value

\* `if cli_args.f == d && self.f.is_some() { cli_args.f = self.f.clone().unwrap(); }`
IfDefault(cli_value, d, config_value) ==
    IF cli_value = d /\ config_value.some THEN config_value.val ELSE cli_value

\* `if !cli_args.f && self.f == Some(true) { cli_args.f = true; }`
IfUnset(cli_value, config_value) ==
    IF ~ cli_value /\ config_value = Some(TRUE) THEN TRUE ELSE cli_value

merge_with_cli(self, cli_args) ==
    [data_dir |-> IfNone(cli_args.data_dir, self.data_dir),
     import |-> cli_args.import,
     function |-> IfDefault(cli_args.function, "summary", self.function),
     output |-> IfNone(cli_args.output, self.output),
     force |-> IfUnset(cli_args.force, self.force),
     sort_by |-> IfDefault(cli_args.sort_by, "symbol", self.sort_by),
     etfs |-> IfNone(cli_args.etfs, self.etfs),
     symbol_col |-> IfNone(cli_args.symbol_col, self.columns.symbol_col),
     name_col |-> IfNone(cli_args.name_col, self.columns.name_col),
     weight_col |-> IfNone(cli_args.weight_col, self.columns.weight_col),
     shares_col |-> IfNone(cli_args.shares_col, self.columns.shares_col),
     number_col |-> IfNone(cli_args.number_col, self.columns.number_col),
     verbose |-> IfUnset(cli_args.verbose, self.verbose)]

ParseArgs ==
    /\ cpc = "start"
    /\ args' = parse_args(given)
    /\ cpc' = "parsed"
    /\ UNCHANGED <<given, config, corrVars, analysisVars, exportVars, mainVars, libVars>>

MergeWithCli ==
    /\ cpc = "parsed"
    /\ args' = merge_with_cli(config, args)
    /\ cpc' = "merged"
    /\ UNCHANGED <<given, config, corrVars, analysisVars, exportVars, mainVars, libVars>>

\* No command line is being read.
NoArgs ==
    /\ given = << >>
    /\ args = << >>
    /\ config = << >>
    /\ cpc = "idle"

(***************************************************************************)
(* io.rs: export_dataframe.  A line is the sequence of its characters.     *)
(***************************************************************************)
Whitespace == {" ", "\t", "\r", "\n"}

\* `.trim()`: without the whitespace at its two ends.
RECURSIVE TrimStart(_)
TrimStart(line) ==
    IF Len(line) > 0 /\ Head(line) \in Whitespace THEN TrimStart(Tail(line))
    ELSE line

RECURSIVE TrimEnd(_)
TrimEnd(line) ==
    IF Len(line) > 0 /\ line[Len(line)] \in Whitespace
    THEN TrimEnd(SubSeq(line, 1, Len(line) - 1))
    ELSE line

Trim(line) == TrimEnd(TrimStart(line))

\* `.to_lowercase()`
LowerChar(c) ==
    CASE c = "Y" -> "y"
      [] c = "E" -> "e"
      [] c = "S" -> "s"
      [] c = "N" -> "n"
      [] c = "O" -> "o"
      [] c = "P" -> "p"
      [] c = "Q" -> "q"
      [] c = "C" -> "c"
      [] c = "V" -> "v"
      [] OTHER -> c

ToLowercase(line) == [i \in 1..Len(line) |-> LowerChar(line[i])]

\* FileFormat::from_path: of the extension of a path, in any case of letters.
from_path(ext) ==
    IF ext = None THEN "parquet"
    ELSE IF ToLowercase(ext.val) \in {<<"p", "a", "r", "q", "u", "e", "t">>, <<"p", "q">>}
         THEN "parquet"
         ELSE "csv"

\* An answer taken by its first letter.
ConfirmsByFirstLetter(line) ==
    /\ Len(Trim(line)) > 0
    /\ LowerChar(Head(Trim(line))) = "y"

\* `response != "y" && response != "yes"` is false
Confirms(line) ==
    ToLowercase(Trim(line)) \in {<<"y">>, <<"y", "e", "s">>}

NoResponse == <<"(none)">>

\* Lines a user may type at the prompt (the empty one is the end of stdin).
Responses ==
    {<< >>, <<"\n">>, <<"y", "\n">>, <<"Y", "\n">>, <<"y">>,
     <<" ", "Y", "e", "s", " ", "\r", "\n">>, <<"Y", "E", "S", "\n">>,
     <<"n", "\n">>, <<"N", "o", "\n">>, <<"y", "e", "\n">>,
     <<"y", " ", "e", "s", "\n">>, <<"y", "e", "s", "s", "\n">>,
     <<"n", "y", "\n">>, <<"\t", "y", "\n">>}

\* Line 377: is there a file, and was force given?
ExportCheck ==
    /\ xpc = "check"
    /\ xpc' = IF file # "absent" /\ ~ force THEN "prompt" ELSE "create"
    /\ UNCHANGED <<path, file, before, force, response, xret>>
    /\ UNCHANGED <<corrVars, analysisVars, configVars, mainVars, libVars>>

\* Lines 378-388: the prompt, the answer, and the return if it is no yes.
ExportPrompt(line) ==
    /\ xpc = "prompt"
    /\ response' = line
    /\ IF Confirms(line)
       THEN xpc' = "create" /\ UNCHANGED xret
       ELSE xpc' = "done" /\ xret' = "Ok(false)"
    /\ UNCHANGED <<path, file, before, force>>
    /\ UNCHANGED <<corrVars, analysisVars, configVars, mainVars, libVars>>

\* Lines 379, 382: `flush()?` or `read_line(...)?` fails.
ExportPromptFails ==
    /\ xpc = "prompt"
    /\ xpc' = "done"
    /\ xret' = "Err"
    /\ UNCHANGED <<path, file, before, force, response>>
    /\ UNCHANGED <<corrVars, analysisVars, configVars, mainVars, libVars>>

\* `File::create(path)?` (line 61 or 396): the file is there and empty, or
\* the call fails and the file is as it was.
ExportCreate(created) ==
    /\ xpc = "create"
    /\ IF created
       THEN file' = "empty" /\ xpc' = "write" /\ UNCHANGED xret
       ELSE xpc' = "done" /\ xret' = "Err" /\ UNCHANGED file
    /\ UNCHANGED <<path, before, force, response>>
    /\ UNCHANGED <<corrVars, analysisVars, configVars, mainVars, libVars>>

\* `.finish(&mut df.clone())?` (lines 62-63 or 397-398) and `Ok(true)`: the
\* table is written, or the write fails part of the way.
ExportWrite(written) ==
    /\ xpc = "write"
    /\ xpc' = "done"
    /\ IF written
       THEN file' = from_path(path) /\ xret' = "Ok(true)"
       ELSE xret' = "Err" /\ UNCHANGED file
    /\ UNCHANGED <<path, before, force, response>>
    /\ UNCHANGED <<corrVars, analysisVars, configVars, mainVars, libVars>>

export_dataframe ==
    \/ ExportCheck
    \/ \E line \in Responses : ExportPrompt(line)
    \/ ExportPromptFails
    \/ \E created \in BOOLEAN : ExportCreate(created)
    \/ \E written \in BOOLEAN : ExportWrite(written)

\* No export is under way.
NoExport ==
    /\ path = None
    /\ file = "absent"
    /\ before = "absent"
    /\ force = FALSE
    /\ response = NoResponse
    /\ xpc = "idle"
    /\ xret = "none"

(***************************************************************************)
(* bin/main.rs: main.  The output path is known by its extension; `file`   *)
(* is the file at the path main finally writes to.                         *)
(***************************************************************************)
NotReturned == [returned |-> FALSE]

\* `Ok(())`
OkUnit == [ok |-> TRUE]

ErrOther(message) == [err |-> message]

\* A failure inside a call main makes with `?`.
ErrFrom(callee) == [err |-> "from", callee |-> callee]

Panic == [panic |-> "unreachable"]

\* A validation that lets a run with an output path through.
NoSourceAndNoOutput(a) ==
    ~ a.data_dir.some /\ ~ a.import.some /\ ~ a.output.some

\* Line 11: `args.data_dir.is_none() && args.import.is_none()`
NoSource(a) == ~ a.data_dir.some /\ ~ a.import.some

\* Lines 11-15
MainValidate ==
    /\ mpc = "validate"
    /\ cpc = "parsed"
    /\ IF NoSource(args)
       THEN mret' = ErrOther("Either --data-dir (-d) or --import (-i) must be specified")
            /\ mpc' = "done"
       ELSE mpc' = "load" /\ UNCHANGED mret
    /\ UNCHANGED <<loaded, matched, dispatched>>
    /\ UNCHANGED <<corrVars, analysisVars, configVars, exportVars, libVars>>

\* Lines 18-31: the import file first, else the data directory; the read
\* succeeds or fails.
MainLoad(ok) ==
    /\ mpc = "load"
    /\ IF args.import.some \/ args.data_dir.some
       THEN IF ok
            THEN /\ loaded' = IF args.import.some THEN "import" ELSE "data_dir"
                 /\ mpc' = "filter"
                 /\ UNCHANGED mret
            ELSE /\ mret' = ErrFrom(IF args.import.some THEN "import_dataframe"
                                    ELSE "load_portfolio_from_directory")
                 /\ mpc' = "done"
                 /\ UNCHANGED loaded
       ELSE mret' = Panic /\ mpc' = "done" /\ UNCHANGED loaded
    /\ UNCHANGED <<matched, dispatched>>
    /\ UNCHANGED <<corrVars, analysisVars, configVars, exportVars, libVars>>

\* The filter without the test of an empty result.
MainFilterWithoutHeightTest(height) ==
    /\ mpc = "filter"
    /\ IF ~ args.etfs.some
       THEN matched' = "all" /\ mpc' = "dispatch" /\ UNCHANGED mret
       ELSE /\ matched' = height
            /\ IF height = "err"
               THEN mret' = ErrFrom("filter_etfs") /\ mpc' = "done"
               ELSE mpc' = "dispatch" /\ UNCHANGED mret
    /\ UNCHANGED <<loaded, dispatched>>
    /\ UNCHANGED <<corrVars, analysisVars, configVars, exportVars, libVars>>

\* Lines 33-49: with --etfs, filter_etfs; `height` is what is left of the
\* loaded table ("err" when filter_etfs fails).
MainFilter(height) ==
    /\ mpc = "filter"
    /\ IF ~ args.etfs.some
       THEN matched' = "all" /\ mpc' = "dispatch" /\ UNCHANGED mret
       ELSE /\ matched' = height
            /\ CASE height = "err" ->
                         mret' = ErrFrom("filter_etfs") /\ mpc' = "done"
                  [] height = "zero" ->
                         /\ mret' = ErrOther("No data found for the specified ETFs. Check that ETF symbols are correct.")
                         /\ mpc' = "done"
                  [] OTHER -> mpc' = "dispatch" /\ UNCHANGED mret
    /\ UNCHANGED <<loaded, dispatched>>
    /\ UNCHANGED <<corrVars, analysisVars, configVars, exportVars, libVars>>

\* `if Path::new(output_path).extension().is_none() { format!("{}.ext", ..) }`
WithExt(ext, default) == IF ext = None THEN Some(default) ELSE ext

\* main calls export_dataframe(.., p, args.force).
StartExport(p) ==
    /\ path' = p
    /\ force' = args.force
    /\ before' = file
    /\ response' = NoResponse
    /\ xpc' = "check"
    /\ xret' = "none"
    /\ UNCHANGED file

\* Lines 51-66
MainExport ==
    /\ mpc = "dispatch"
    /\ args.function = "export"
    /\ dispatched' = "export"
    /\ IF args.output.some
       THEN mpc' = "export" /\ StartExport(args.output.val) /\ UNCHANGED mret
       ELSE /\ mret' = ErrOther("Export function requires --output (-o) to be specified")
            /\ mpc' = "done"
            /\ UNCHANGED exportVars
    /\ UNCHANGED <<loaded, matched>>
    /\ UNCHANGED <<corrVars, analysisVars, configVars, libVars>>

\* The functions that compute a table and export it if --output is given.
QueryFunctions == {"summary", "assets", "unique", "overlap", "mapping"}

\* Lines 69-99, 102-134, 137-165, 168-198, 201-233
MainQuery(ok) ==
    /\ mpc = "dispatch"
    /\ args.function \in QueryFunctions
    /\ dispatched' = args.function
    /\ IF ~ ok
       THEN mret' = ErrFrom(args.function) /\ mpc' = "done" /\ UNCHANGED exportVars
       ELSE IF args.output.some
            THEN /\ mpc' = "export"
                 /\ StartExport(WithExt(args.output.val, <<"c", "s", "v">>))
                 /\ UNCHANGED mret
            ELSE mret' = OkUnit /\ mpc' = "done" /\ UNCHANGED exportVars
    /\ UNCHANGED <<loaded, matched>>
    /\ UNCHANGED <<corrVars, analysisVars, configVars, libVars>>

\* `let written = io::export_dataframe(..)?; ... return Ok(());`
MainExported ==
    /\ mpc = "export"
    /\ xpc = "done"
    /\ mret' = IF xret = "Err" THEN ErrFrom("export_dataframe") ELSE OkUnit
    /\ mpc' = "done"
    /\ UNCHANGED <<loaded, matched, dispatched>>
    /\ UNCHANGED <<corrVars, analysisVars, configVars, exportVars, libVars>>

\* Lines 236-269: `std::fs::write` creates or truncates the file and writes.
MainList(outcome) ==
    /\ mpc = "dispatch"
    /\ args.function = "list"
    /\ dispatched' = "list"
    /\ mpc' = "done"
    /\ IF outcome = "err"
       THEN mret' = ErrFrom("get_etf_list") /\ UNCHANGED exportVars
       ELSE IF ~ args.output.some
            THEN mret' = OkUnit /\ UNCHANGED exportVars
            ELSE /\ path' = WithExt(args.output.val, <<"t", "x", "t">>)
                 /\ before' = file
                 /\ CASE outcome = "written" -> file' = "txt" /\ mret' = OkUnit
                      [] outcome = "created" ->
                             file' = "empty" /\ mret' = ErrFrom("std::fs::write")
                      [] OTHER -> UNCHANGED file /\ mret' = ErrFrom("std::fs::write")
                 /\ UNCHANGED <<force, response, xpc, xret>>
    /\ UNCHANGED <<loaded, matched>>
    /\ UNCHANGED <<corrVars, analysisVars, configVars, libVars>>

\* Lines 271-313: no branch was taken; the loaded table goes into a
\* Portfolio and, with --output, is saved by save_csv at the path as given.
MainDefault(outcome) ==
    /\ mpc = "dispatch"
    /\ args.function \notin QueryFunctions \cup {"export", "list"}
    /\ dispatched' = "default"
    /\ mpc' = "done"
    /\ IF outcome = "err"
       THEN mret' = ErrFrom("load_data") /\ UNCHANGED exportVars
       ELSE IF ~ args.output.some
            THEN mret' = OkUnit /\ UNCHANGED exportVars
            ELSE /\ path' = args.output.val
                 /\ before' = file
                 /\ CASE outcome = "written" -> file' = "csv" /\ mret' = OkUnit
                      [] outcome = "created" ->
                             file' = "empty" /\ mret' = ErrFrom("save_csv")
                      [] OTHER -> UNCHANGED file /\ mret' = ErrFrom("save_csv")
                 /\ UNCHANGED <<force, response, xpc, xret>>
    /\ UNCHANGED <<loaded, matched>>
    /\ UNCHANGED <<corrVars, analysisVars, configVars, libVars>>

Heights == {"err", "zero", "some"}

WriteOutcomes == {"err", "failed", "created", "written"}

main ==
    \/ ParseArgs
    \/ MainValidate
    \/ \E ok \in BOOLEAN : MainLoad(ok)
    \/ \E height \in Heights : MainFilter(height)
    \/ MainExport
    \/ \E ok \in BOOLEAN : MainQuery(ok)
    \/ export_dataframe
    \/ MainExported
    \/ \E outcome \in WriteOutcomes : MainList(outcome)
    \/ \E outcome \in WriteOutcomes : MainDefault(outcome)

\* No run of main is under way.
NoMain ==
    /\ mpc = "idle"
    /\ loaded = "none"
    /\ matched = "none"
    /\ dispatched = "none"
    /\ mret = NotReturned

(***************************************************************************)
(* io.rs: import_dataframe, for a path with a file name.  The paths it may *)
(* read are the exact one and the one with the extension parquet set.      *)
(***************************************************************************)
ErrNotFound(tried) == [err |-> "Import file does not exist", tried |-> tried]

\* A choice that takes the .parquet file whenever it is there.
ActualPathParquetFirst(ext, disk) ==
    IF ext = None /\ "parquet" \in disk THEN "parquet"
    ELSE IF "exact" \in disk THEN "exact"
    ELSE "none"

\* Lines 324-343: `actual_path`, or none where the function returns the Err.
ActualPath(ext, disk) ==
    IF "exact" \in disk THEN "exact"
    ELSE LET parquet_path == IF ext = None THEN "parquet" ELSE "exact"
         IN  IF parquet_path \in disk /\ parquet_path # "exact" THEN "parquet"
             ELSE "none"

\* The extension of a path import_dataframe may read.
ExtensionOf(ext, which) ==
    IF which = "parquet" THEN Some(<<"p", "a", "r", "q", "u", "e", "t">>) ELSE ext

\* Lines 324-355
ImportResolve ==
    /\ ipc = "resolve"
    /\ actual_path' = ActualPath(ipath, on_disk)
    /\ IF actual_path' = "none"
       THEN /\ iret' = ErrNotFound(IF ipath = None THEN {"exact", "parquet"}
                                   ELSE {"exact"})
            /\ ipc' = "done"
       ELSE ipc' = "read" /\ UNCHANGED iret
    /\ UNCHANGED <<ipath, on_disk>>
    /\ UNCHANGED <<baseVars, loadVars, csvVars, portfolioVars>>

\* Lines 357-364: the file is read as its extension tells, or the read fails.
ImportRead(ok) ==
    /\ ipc = "read"
    /\ ipc' = "done"
    /\ LET format == from_path(ExtensionOf(ipath, actual_path))
       IN  iret' = IF ok THEN [ok |-> TRUE, format |-> format]
                   ELSE [err |-> "read", format |-> format]
    /\ UNCHANGED <<ipath, on_disk, actual_path>>
    /\ UNCHANGED <<baseVars, loadVars, csvVars, portfolioVars>>

import_dataframe ==
    \/ ImportResolve
    \/ \E ok \in BOOLEAN : ImportRead(ok)

\* No import is under way.
NoImport ==
    /\ ipath = None
    /\ on_disk = {}
    /\ ipc = "idle"
    /\ actual_path = "none"
    /\ iret = NotReturned

(***************************************************************************)
(* io.rs: load_multiple_holdings_with_config.  At a path is a file that    *)
(* load_holdings_csv_with_config fails on, or one it loads as a table of   *)
(* the file's columns and rows; a row is known by its file and its number. *)
(***************************************************************************)
Unreadable == [readable |-> FALSE]

LoadedTable(k, f) ==
    [cols |-> f.cols, rows |-> [r \in 1..f.height |-> [path |-> k, row |-> r]]]

\* `load_holdings_csv_with_config(path, &config_clone)`
LoadOne(k, f) ==
    IF f = Unreadable THEN [err |-> "load", path |-> k] ELSE Ok(LoadedTable(k, f))

\* `combined.vstack_mut(df)?`: the rows of df after those of combined, if the
\* two have the same columns.
Vstack(combined, d) ==
    IF "err" \in DOMAIN combined THEN combined
    ELSE IF combined.val.cols # d.cols THEN [err |-> "vstack"]
    ELSE Ok([cols |-> d.cols, rows |-> combined.val.rows \o d.rows])

\* Lines 226-241: the first Err of the results in their order, or the tables
\* stacked in their order.
RECURSIVE Combine(_, _, _)
Combine(res, k, combined) ==
    IF k > Len(res) THEN combined
    ELSE IF "err" \in DOMAIN res[k] THEN res[k]
    ELSE IF k = 1 THEN Combine(res, 2, res[1])
    ELSE Combine(res, k + 1, Vstack(combined, res[k].val))

\* The dataframes pushed before anything is stacked: an Err of a later
\* result is returned before the first vstack.
FirstErr(res) ==
    IF \E k \in 1..Len(res) : "err" \in DOMAIN res[k]
    THEN res[Min({k \in 1..Len(res) : "err" \in DOMAIN res[k]})]
    ELSE Combine(res, 1, Err)

\* A collect that keeps the results in the order the loads finish.
CollectAsFinished(res, k, r) ==
    res @@ (Min((1..Len(files)) \ DOMAIN res) :> r)

\* `paths.par_iter().map(..).collect()`: a result is at its path's position.
CollectAt(res, k, r) == res @@ (k :> r)

\* Lines 213-215
LoadStart ==
    /\ lpc = "call"
    /\ IF Len(files) = 0
       THEN lret' = ErrOther("No paths provided") /\ lpc' = "done"
       ELSE lpc' = "parallel" /\ UNCHANGED lret
    /\ UNCHANGED <<files, lresults>>
    /\ UNCHANGED <<baseVars, importVars, csvVars, portfolioVars>>

\* Lines 221-224: one load runs to its end, whenever the pool schedules it.
LoadTask(k) ==
    /\ lpc = "parallel"
    /\ k \in (1..Len(files)) \ DOMAIN lresults
    /\ lresults' = CollectAt(lresults, k, LoadOne(k, files[k]))
    /\ UNCHANGED <<files, lpc, lret>>
    /\ UNCHANGED <<baseVars, importVars, csvVars, portfolioVars>>

\* Lines 226-243: every load has returned.
LoadCombine ==
    /\ lpc = "parallel"
    /\ DOMAIN lresults = 1..Len(files)
    /\ lret' = FirstErr(lresults)
    /\ lpc' = "done"
    /\ UNCHANGED <<files, lresults>>
    /\ UNCHANGED <<baseVars, importVars, csvVars, portfolioVars>>

load_multiple_holdings ==
    \/ LoadStart
    \/ \E k \in 1..Len(files) : LoadTask(k)
    \/ LoadCombine

\* No load is under way.
NoLoad ==
    /\ files = << >>
    /\ lresults = << >>
    /\ lpc = "idle"
    /\ lret = NotReturned

(***************************************************************************)
(* io.rs: load_holdings_csv_with_config.  The file is its name, its column *)
(* names in order, and its rows; a value is the text of its field, and     *)
(* NullStr for an empty field.                                             *)
(***************************************************************************)
\* extract_etf_name: the file name without ".csv" and "-etf-holdings", in
\* upper case.
extract_etf_name(name) == Upper(name.stem)

\* `s.to_lowercase()` of a Symbol
LowerSymbol(s) == IF s = "N/A" THEN "n/a" ELSE s

\* The i64 the reader makes of a field of digits.
ParseI64(text) == CASE text = "1" -> 1 [] text = "2" -> 2 [] text = "02" -> 2

\* `no_series.cast(&DataType::String)` of the number column as read
CastToString(no) == IF no = NullStr THEN NullStr ELSE ToString(ParseI64(no))

\* A test of "n/a" as it is written.
SynthesizeExactNa(symbol, no, etf_name) ==
    IF symbol # NullStr /\ symbol # "" /\ symbol # "n/a" THEN symbol
    ELSE IF no = NullStr THEN NullStr
    ELSE etf_name \o "-" \o no

\* Lines 151-160: the Symbol kept, or "{ETF}-{No}", or null without a No.
Synthesize(symbol, no, etf_name) ==
    IF symbol # NullStr /\ symbol # "" /\ LowerSymbol(symbol) # "n/a" THEN symbol
    ELSE IF no = NullStr THEN NullStr
    ELSE etf_name \o "-" \o no

HasColumn(d, c) == \E i \in 1..Len(d.cols) : d.cols[i] = c

\* `if df.column(from).is_ok() && from != to { df.rename(from, to)?; }`
Rename(d, from, to) ==
    IF HasColumn(d, from) /\ from # to
    THEN [cols |-> [i \in 1..Len(d.cols) |-> IF d.cols[i] = from THEN to ELSE d.cols[i]],
          rows |-> [r \in 1..Len(d.rows) |->
                       [c \in (DOMAIN d.rows[r] \ {from}) \cup {to} |->
                           IF c = to THEN d.rows[r][from] ELSE d.rows[r][c]]]]
    ELSE d

\* `df.drop(name)`
Drop(d, name) ==
    [cols |-> SelectSeq(d.cols, LAMBDA c : c # name),
     rows |-> [r \in 1..Len(d.rows) |->
                  [c \in DOMAIN d.rows[r] \ {name} |-> d.rows[r][c]]]]

\* `df.with_column(series)` of a column of one value: a column of that name
\* is replaced, a new one comes last.
WithColumn(d, name, value) ==
    [cols |-> IF HasColumn(d, name) THEN d.cols ELSE Append(d.cols, name),
     rows |-> [r \in 1..Len(d.rows) |->
                  [c \in DOMAIN d.rows[r] \cup {name} |->
                      IF c = name THEN value ELSE d.rows[r][c]]]]

\* Lines 183-198: "ETF", then the other columns in their order.
EtfFirst(d) ==
    [cols |-> <<"ETF">> \o SelectSeq(d.cols, LAMBDA c : c # "ETF"), rows |-> d.rows]

load_holdings_csv_with_config(f, cfg) ==
    LET etf_name == extract_etf_name(f.name)
        d0 == [cols |-> f.cols, rows |-> f.rows]
        had_no == HasColumn(d0, cfg.number_col)
        no_col == [r \in 1..Len(d0.rows) |->
                      IF had_no THEN d0.rows[r][cfg.number_col] ELSE NullStr]
        d1 == Rename(d0, cfg.symbol_col, "Symbol")
        d2 == Rename(d1, cfg.name_col, "Name")
        d3 == Rename(d2, cfg.weight_col, "Weight")
        d4 == Rename(d3, cfg.shares_col, "Shares")
        d5 == IF had_no /\ HasColumn(d4, "Symbol")
              THEN [cols |-> d4.cols,
                    rows |-> [r \in 1..Len(d4.rows) |->
                                 [d4.rows[r] EXCEPT !.Symbol =
                                     Synthesize(@, CastToString(no_col[r]), etf_name)]]]
              ELSE d4
        d6 == IF HasColumn(d5, cfg.number_col) THEN Drop(d5, cfg.number_col) ELSE d5
        d7 == WithColumn(d6, "ETF", etf_name)
    IN  Ok(EtfFirst(d7))

CallLoadHoldingsCsv ==
    /\ hret = NotReturned
    /\ csv # << >>
    /\ hret' = load_holdings_csv_with_config(csv, column_config)
    /\ UNCHANGED <<csv, column_config>>
    /\ UNCHANGED <<baseVars, importVars, loadVars, portfolioVars>>

\* No file is being loaded.
NoCsv ==
    /\ csv = << >>
    /\ column_config = << >>
    /\ hret = NotReturned

(***************************************************************************)
(* portfolio.rs: Portfolio.  The constructors make the Portfolio at hand;  *)
(* the methods are called on it.                                           *)
(***************************************************************************)
NoPortfolio == [made |-> FALSE]

\* `vec![weight; n]` with weight 1.0 / n, or 0.0 of no ETF
EqualWeights(n) ==
    LET weight == IF n > 0 THEN FDiv(One, FromUsize(n)) ELSE Zero
    IN  [i \in 1..n |-> weight]

\* 1e-6
Tolerance == Round(Unit, 1000000)

FAbs(a) == IF a.c = "nan" THEN NaN ELSE [c |-> a.c, v |-> Abs(a.v)]

\* `a > b` of two f64
FGt(a, b) ==
    /\ a.c # "nan"
    /\ b.c # "nan"
    /\ \/ a.c = "inf" /\ a.v > 0 /\ a # b
       \/ b.c = "inf" /\ b.v < 0 /\ a # b
       \/ a.c = "fin" /\ b.c = "fin" /\ a.v > b.v

\* with_weights that tests the sum only.
WithWeightsSumOnly(etfs, weights) ==
    IF FGt(FAbs(FSub(Sum(weights), One)), Tolerance)
    THEN ErrOther("Weights must sum to 1.0")
    ELSE Ok([etfs |-> etfs, weights |-> weights, data |-> None])

with_weights(etfs, weights) ==
    IF Len(etfs) # Len(weights)
    THEN ErrOther("Number of ETFs must match number of weights")
    ELSE IF FGt(FAbs(FSub(Sum(weights), One)), Tolerance)
    THEN ErrOther("Weights must sum to 1.0")
    ELSE Ok([etfs |-> etfs, weights |-> weights, data |-> None])

\* `a.iter().zip(b.iter())`: the pairs up to the shorter length.
Zip(a, b) ==
    [i \in 1..(IF Len(a) < Len(b) THEN Len(a) ELSE Len(b)) |-> <<a[i], b[i]>>]

calculate_portfolio_return(self, returns) ==
    IF Len(returns) # Len(self.weights)
    THEN ErrOther("Returns length must match weights length")
    ELSE LET zipped == Zip(returns, self.weights)
         IN  Ok(Sum([i \in 1..Len(zipped) |-> FMul(zipped[i][1], zipped[i][2])]))

\* The summary: the number of ETFs, and a line of each ETF with its weight
\* (written as a percentage of two decimals).
summary(self) ==
    [etfs |-> Len(self.etfs), lines |-> Zip(self.etfs, self.weights)]

PortfolioNew(etfs) ==
    /\ portfolio' = [etfs |-> etfs, weights |-> EqualWeights(Len(etfs)), data |-> None]
    /\ prior' = portfolio
    /\ method' = [fn |-> "new", etfs |-> etfs]
    /\ pres' = OkUnit
    /\ UNCHANGED <<baseVars, importVars, loadVars, csvVars>>

PortfolioWithWeights(etfs, weights) ==
    LET result == with_weights(etfs, weights)
    IN  /\ portfolio' = IF "ok" \in DOMAIN result THEN result.val ELSE portfolio
        /\ prior' = portfolio
        /\ method' = [fn |-> "with_weights", etfs |-> etfs, weights |-> weights]
        /\ pres' = IF "ok" \in DOMAIN result THEN OkUnit ELSE result
        /\ UNCHANGED <<baseVars, importVars, loadVars, csvVars>>

PortfolioLoadData(d) ==
    /\ portfolio # NoPortfolio
    /\ portfolio' = [portfolio EXCEPT !.data = Some(d)]
    /\ prior' = portfolio
    /\ method' = [fn |-> "load_data", df |-> d]
    /\ pres' = OkUnit
    /\ UNCHANGED <<baseVars, importVars, loadVars, csvVars>>

PortfolioReturn(returns) ==
    /\ portfolio # NoPortfolio
    /\ pres' = calculate_portfolio_return(portfolio, returns)
    /\ prior' = portfolio
    /\ method' = [fn |-> "calculate_portfolio_return", returns |-> returns]
    /\ UNCHANGED portfolio
    /\ UNCHANGED <<baseVars, importVars, loadVars, csvVars>>

PortfolioRebalanceEqual ==
    /\ portfolio # NoPortfolio
    /\ portfolio' = [portfolio EXCEPT !.weights = EqualWeights(Len(portfolio.etfs))]
    /\ prior' = portfolio
    /\ method' = [fn |-> "rebalance_equal"]
    /\ pres' = OkUnit
    /\ UNCHANGED <<baseVars, importVars, loadVars, csvVars>>

PortfolioSummary ==
    /\ portfolio # NoPortfolio
    /\ pres' = summary(portfolio)
    /\ prior' = portfolio
    /\ method' = [fn |-> "summary"]
    /\ UNCHANGED portfolio
    /\ UNCHANGED <<baseVars, importVars, loadVars, csvVars>>

\* No Portfolio has been made.
NoPortfolioCall ==
    /\ portfolio = NoPortfolio
    /\ prior = NoPortfolio
    /\ method = [fn |-> "none"]
    /\ pres = NotReturned

NoLib == NoImport /\ NoLoad /\ NoCsv /\ NoPortfolioCall

NoRun == NoArgs /\ NoExport /\ NoMain /\ NoLib

(***************************************************************************)
(* The inputs of a call.                                                   *)
(***************************************************************************)
MaxRows == 2
MaxCols == 3

\* Sequences of length n over S.
SeqsOfLen(S, n) == [1..n -> S]

\* Names a caller may ask for: A and B are f64 columns of the table, X is no
\* column of it.
ColumnNames == {"A", "B", "X"}

StrCell == [c |-> "str", v |-> 0]

Table(a, b) ==
    [name \in {"A", "B", "S"} |->
        IF name = "A" THEN [dtype |-> "f64", vals |-> a]
        ELSE IF name = "B" THEN [dtype |-> "f64", vals |-> b]
        ELSE [dtype |-> "str", vals |-> [i \in 1..Len(a) |-> StrCell]]]

\* 1.0 and 2.0, and a missing value.
SmallCells == {Null, Fin(Unit), Fin(2 * Unit)}

\* The tables of a call of Spec: A holds any cells, B numbers the rows
\* (1.0, 2.0, ...), S is a str column.
IndexedTables(cells, maxRows) ==
    UNION {{Table(a, [i \in 1..h |-> Fin(i * Unit)]) : a \in SeqsOfLen(cells, h)} :
              h \in 0..maxRows}

ColumnLists(maxCols) == UNION {SeqsOfLen(ColumnNames, n) : n \in 0..maxCols}

CallInit ==
    /\ pc = "call"
    /\ corr_matrix = << >>
    /\ pairs = << >>
    /\ results = << >>
    /\ cursor = 0
    /\ ret = "none"

\* No holdings query is under way.
NoQuery ==
    /\ holdings = [cols |-> << >>, rows |-> << >>]
    /\ query = [fn |-> "none"]
    /\ out = Err
    /\ NoRun

Init ==
    /\ df \in IndexedTables(SmallCells, MaxRows)
    /\ columns \in ColumnLists(MaxCols)
    /\ CallInit
    /\ NoQuery

Next == calculate_correlation

(***************************************************************************)
(* The calls of SpecNaN: as those of Spec, of a table whose column A may   *)
(* hold a NaN (a value of an f64 column, not a null).                      *)
(***************************************************************************)
\* 1.0 and 2.0, and a NaN.
NaNCells == {Fin(Unit), Fin(2 * Unit), NaN}

InitNaN ==
    /\ df \in IndexedTables(NaNCells, MaxRows)
    /\ columns \in ColumnLists(MaxCols)
    /\ CallInit
    /\ NoQuery

(***************************************************************************)
(* The calls of SpecNum: two columns asked for, of a table whose f64       *)
(* columns A and B both hold any cells.  The caller may also ask for S, a  *)
(* str column of the table.                                                *)
(***************************************************************************)
MaxLen == 3

\* 1.0 and 1.5, and a missing value.
NumCells == {Null, Fin(Unit), Fin(Unit + Unit \div 2)}

Tables(cells, maxRows) ==
    UNION {{Table(a, b) : a \in SeqsOfLen(cells, h), b \in SeqsOfLen(cells, h)} :
              h \in 0..maxRows}

InitNum ==
    /\ df \in Tables(NumCells, MaxLen)
    /\ columns \in SeqsOfLen(ColumnNames \cup {"S"}, 2)
    /\ CallInit
    /\ NoQuery

(***************************************************************************)
(* The queries of SpecAnalysis: one query of a holdings table.  The Name   *)
(* and the Weight of a row tell the rows apart.                            *)
(***************************************************************************)
MaxHoldings == 3
MaxEtfs == 2

EtfValues == {NullStr, "SPY", "qqq"}
SymbolValues == {NullStr, "AAPL", "MSFT"}

\* The columns of a holdings table: ETF first, then those of the file, which
\* may have more than the queries use.
HoldingsColumns == {<<"ETF", "Symbol", "Name", "Weight">>,
                    <<"ETF", "Symbol", "Name", "Weight", "Shares">>}

HoldingsRow(cols, r, etf, symbol) ==
    [c \in {cols[i] : i \in 1..Len(cols)} |->
        CASE c = "ETF" -> etf
          [] c = "Symbol" -> symbol
          [] c = "Name" -> "N" \o ToString(r)
          [] c = "Weight" -> "W" \o ToString(r)
          [] OTHER -> "S" \o ToString(r)]

HoldingsTables ==
    UNION {{[cols |-> cols,
             rows |-> [r \in 1..h |-> HoldingsRow(cols, r, e[r], s[r])]] :
               e \in SeqsOfLen(EtfValues, h), s \in SeqsOfLen(SymbolValues, h),
               cols \in HoldingsColumns} :
              h \in 0..MaxHoldings}

\* The orders in which unique() may give the ETFs of a group.
EtfOrders ==
    {o \in SeqsOfLen(EtfValues \ {NullStr}, Cardinality(EtfValues \ {NullStr})) :
        \A i \in DOMAIN o : \A j \in DOMAIN o : i # j => o[i] # o[j]}

SortModes == {"Symbol", "EtfCount"}

\* The lists of ETF symbols a caller may give.
EtfLists == UNION {SeqsOfLen({"spy", "QQQ"}, n) : n \in 0..MaxEtfs}

NoCall ==
    /\ df = << >>
    /\ columns = << >>
    /\ pc = "idle"
    /\ corr_matrix = << >>
    /\ pairs = << >>
    /\ results = << >>
    /\ cursor = 0
    /\ ret = "none"

InitAnalysis ==
    /\ holdings \in HoldingsTables
    /\ query = [fn |-> "none"]
    /\ out = Err
    /\ NoCall
    /\ NoRun

NextAnalysis ==
    \/ \E etf_symbols \in EtfLists : CallFilterEtfs(etf_symbols)
    \/ CallGetUniqueAssets
    \/ \E sort_by \in SortModes : CallGetOverlapAssets(sort_by)
    \/ \E sort_by \in SortModes : \E etf_order \in EtfOrders :
           CallAggregateAssets(sort_by, etf_order)
    \/ \E sort_by \in SortModes : \E etf_order \in EtfOrders :
           CallGetAssetMapping(sort_by, etf_order)
    \/ \E etfs \in EtfLists : CallGetEtfComparison(etfs)
    \/ CallGetEtfSummary

(***************************************************************************)
(* The command lines of SpecConfig: any options written, merged with an    *)
(* empty config file or with one that sets every field.                    *)
(***************************************************************************)
Opt(v) == {None, Some(v)}

CommandLines ==
    [data_dir : Opt("cli"), import : {None},
     function : {None, Some("summary"), Some("assets")},
     output : Opt("cli"), force : BOOLEAN,
     sort_by : {None, Some("symbol"), Some("count")},
     etfs : Opt(<<"SPY">>),
     symbol_col : Opt("cli"), name_col : Opt("cli"), weight_col : Opt("cli"),
     shares_col : Opt("cli"), number_col : Opt("cli"), verbose : BOOLEAN]

EmptyConfig ==
    [data_dir |-> None, function |-> None, output |-> None, sort_by |-> None,
     etfs |-> None, force |-> None, verbose |-> None,
     columns |-> [symbol_col |-> None, name_col |-> None, weight_col |-> None,
                  shares_col |-> None, number_col |-> None]]

FullConfig(flag) ==
    [data_dir |-> Some("cfg"), function |-> Some("overlap"),
     output |-> Some("cfg"), sort_by |-> Some("etfs"),
     etfs |-> Some(<<"QQQ">>), force |-> flag, verbose |-> flag,
     columns |-> [symbol_col |-> Some("cfg"), name_col |-> Some("cfg"),
                  weight_col |-> Some("cfg"), shares_col |-> Some("cfg"),
                  number_col |-> Some("cfg")]]

ConfigFiles == {EmptyConfig} \cup {FullConfig(flag) : flag \in Opt(TRUE) \cup Opt(FALSE)}

InitConfig ==
    /\ given \in CommandLines
    /\ config \in ConfigFiles
    /\ args = << >>
    /\ cpc = "start"
    /\ NoCall
    /\ NoExport
    /\ NoMain
    /\ NoLib
    /\ holdings = [cols |-> << >>, rows |-> << >>]
    /\ query = [fn |-> "none"]
    /\ out = Err

NextConfig == ParseArgs \/ MergeWithCli

Spec == Init /\ [][Next]_vars

SpecConfig == InitConfig /\ [][NextConfig]_vars

(***************************************************************************)
(* The calls of SpecExport: export_dataframe for a path with or without a  *)
(* file, with or without force.                                            *)
(***************************************************************************)
Extensions ==
    {None, Some(<<"c", "s", "v">>), Some(<<"C", "S", "V">>), Some(<<"p", "q">>),
     Some(<<"P", "q">>), Some(<<"p", "a", "r", "q", "u", "e", "t">>),
     Some(<<"c", "s">>)}

InitExport ==
    /\ path \in Extensions
    /\ file \in {"absent", "old"}
    /\ before = file
    /\ force \in BOOLEAN
    /\ response = NoResponse
    /\ xpc = "check"
    /\ xret = "none"
    /\ NoArgs
    /\ NoMain
    /\ NoLib
    /\ NoCall
    /\ holdings = [cols |-> << >>, rows |-> << >>]
    /\ query = [fn |-> "none"]
    /\ out = Err

NextExport == export_dataframe

SpecExport == InitExport /\ [][NextExport]_vars

(***************************************************************************)
(* The calls of SpecImport: import_dataframe of a path with one of a few   *)
(* extensions, or none, or an empty one, with any of the two files there.  *)
(***************************************************************************)
ImportPaths == Extensions \cup {Some(<< >>), Some(<<"t", "x", "t">>)}

InitImport ==
    /\ ipath \in ImportPaths
    /\ on_disk \in SUBSET {"exact", "parquet"}
    /\ ipc = "resolve"
    /\ actual_path = "none"
    /\ iret = NotReturned
    /\ NoLoad
    /\ NoCsv
    /\ NoPortfolioCall
    /\ NoArgs
    /\ NoExport
    /\ NoMain
    /\ NoCall
    /\ holdings = [cols |-> << >>, rows |-> << >>]
    /\ query = [fn |-> "none"]
    /\ out = Err

NextImport == import_dataframe

SpecImport == InitImport /\ [][NextImport]_vars

(***************************************************************************)
(* The calls of SpecLoad: load_multiple_holdings of up to MaxFiles paths,  *)
(* each of a file that does not load or of one with up to MaxFileRows rows *)
(* and the columns of a holdings table.                                    *)
(***************************************************************************)
MaxFiles == 3
MaxFileRows == 1

FileContents ==
    {Unreadable} \cup [readable : {TRUE}, cols : HoldingsColumns, height : 0..MaxFileRows]

InitLoad ==
    /\ files \in UNION {SeqsOfLen(FileContents, n) : n \in 0..MaxFiles}
    /\ lresults = << >>
    /\ lpc = "call"
    /\ lret = NotReturned
    /\ NoImport
    /\ NoCsv
    /\ NoPortfolioCall
    /\ NoArgs
    /\ NoExport
    /\ NoMain
    /\ NoCall
    /\ holdings = [cols |-> << >>, rows |-> << >>]
    /\ query = [fn |-> "none"]
    /\ out = Err

NextLoad == load_multiple_holdings

SpecLoad == InitLoad /\ [][NextLoad]_vars

(***************************************************************************)
(* The calls of SpecCsv: load_holdings_csv_with_config of a file of up to  *)
(* MaxCsvRows rows, with the default columns or with Ticker for Symbol.    *)
(***************************************************************************)
MaxCsvRows == 2

FileNames == {[stem |-> "spy", holdings |-> TRUE], [stem |-> "qqq", holdings |-> FALSE]}

FileLayouts ==
    {<<"Symbol", "Name", "% Weight", "No.">>,
     <<"No.", "Symbol", "Name", "% Weight", "Shares">>,
     <<"Symbol", "Name", "% Weight">>,
     <<"Ticker", "Name", "% Weight", "No.">>,
     <<"ETF", "Symbol", "No.">>}

SourceSymbols == {NullStr, "", "n/a", "N/A", "AAPL"}

SourceNumbers == {NullStr, "1", "02"}

\* The r-th row of a file: a Symbol (or Ticker), and a number or none.
CsvRow(cols, r, symbol, number) ==
    [c \in {cols[i] : i \in 1..Len(cols)} |->
        CASE c \in {"Symbol", "Ticker"} -> symbol
          [] c = "No." -> number
          [] OTHER -> c \o ToString(r)]

\* The file of a name and a layout, with the Symbols and numbers of its rows.
CsvFile(n, cols, sym, num) ==
    [name |-> n, cols |-> cols,
     rows |-> [r \in 1..Len(sym) |-> CsvRow(cols, r, sym[r], num[r])]]

ColumnConfigs ==
    {[symbol_col |-> sc, name_col |-> "Name", weight_col |-> "% Weight",
      shares_col |-> "Shares", number_col |-> "No."] : sc \in {"Symbol", "Ticker"}}

InitCsv ==
    /\ \E n \in FileNames, cols \in FileLayouts, h \in 0..MaxCsvRows :
           \E sym \in SeqsOfLen(SourceSymbols, h), num \in SeqsOfLen(SourceNumbers, h) :
               csv = CsvFile(n, cols, sym, num)
    /\ column_config \in ColumnConfigs
    /\ hret = NotReturned
    /\ NoImport
    /\ NoLoad
    /\ NoPortfolioCall
    /\ NoArgs
    /\ NoExport
    /\ NoMain
    /\ NoCall
    /\ holdings = [cols |-> << >>, rows |-> << >>]
    /\ query = [fn |-> "none"]
    /\ out = Err

NextCsv == CallLoadHoldingsCsv

SpecCsv == InitCsv /\ [][NextCsv]_vars

(***************************************************************************)
(* The calls of SpecPortfolio: any sequence of the constructors and the    *)
(* methods of Portfolio, of up to MaxPortfolioEtfs ETFs, weights and       *)
(* returns.                                                                *)
(***************************************************************************)
MaxPortfolioEtfs == 2

\* The first ETFs of a list of distinct ones.
PortfolioEtfs ==
    {SubSeq(<<"SPY", "QQQ", "VTI", "IWM">>, 1, n) : n \in 0..MaxPortfolioEtfs}

\* 0.25, 0.75 and 1.0
WeightLists ==
    UNION {SeqsOfLen({Fin(Unit \div 4), Fin(3 * (Unit \div 4)), Fin(Unit)}, n) :
              n \in 0..MaxPortfolioEtfs}

\* 1.0 and 2.0
ReturnLists ==
    UNION {SeqsOfLen({Fin(Unit), Fin(2 * Unit)}, n) : n \in 0..MaxPortfolioEtfs}

DataTables == {[cols |-> <<"ETF", "Symbol">>, height |-> h] : h \in 0..1}

InitPortfolio ==
    /\ NoPortfolioCall
    /\ NoImport
    /\ NoLoad
    /\ NoCsv
    /\ NoArgs
    /\ NoExport
    /\ NoMain
    /\ NoCall
    /\ holdings = [cols |-> << >>, rows |-> << >>]
    /\ query = [fn |-> "none"]
    /\ out = Err

NextPortfolio ==
    \/ \E etfs \in PortfolioEtfs : PortfolioNew(etfs)
    \/ \E etfs \in PortfolioEtfs, weights \in WeightLists : PortfolioWithWeights(etfs, weights)
    \/ \E d \in DataTables : PortfolioLoadData(d)
    \/ \E returns \in ReturnLists : PortfolioReturn(returns)
    \/ PortfolioRebalanceEqual
    \/ PortfolioSummary

SpecPortfolio == InitPortfolio /\ [][NextPortfolio]_vars

(***************************************************************************)
(* The runs of SpecMain: main on a command line, with or without a file at *)
(* the output path.                                                        *)
(***************************************************************************)
Functions == QueryFunctions \cup {"export", "list", "compare"}

OutputPaths == {None, Some(None), Some(Some(<<"c", "s", "v">>))}

MainCommandLines ==
    [data_dir : Opt("dir"), import : Opt("file"),
     function : {None} \cup {Some(f) : f \in Functions},
     output : OutputPaths, force : BOOLEAN,
     sort_by : {None},
     etfs : Opt(<<"SPY">>),
     symbol_col : {None}, name_col : {None}, weight_col : {None},
     shares_col : {None}, number_col : {None}, verbose : {FALSE}]

\* The .etf_analyzer.toml of the working directory: none or an empty one,
\* or one that sets data_dir.
MainConfigFiles == {EmptyConfig, [EmptyConfig EXCEPT !.data_dir = Some("cfg")]}

InitMain ==
    /\ given \in MainCommandLines
    /\ config \in MainConfigFiles
    /\ args = << >>
    /\ cpc = "start"
    /\ mpc = "validate"
    /\ loaded = "none"
    /\ matched = "none"
    /\ dispatched = "none"
    /\ mret = NotReturned
    /\ path = None
    /\ file \in {"absent", "old"}
    /\ before = file
    /\ force = FALSE
    /\ response = NoResponse
    /\ xpc = "idle"
    /\ xret = "none"
    /\ NoLib
    /\ NoCall
    /\ holdings = [cols |-> << >>, rows |-> << >>]
    /\ query = [fn |-> "none"]
    /\ out = Err

NextMain == main

SpecMain == InitMain /\ [][NextMain]_vars

SpecNaN == InitNaN /\ [][Next]_vars

SpecNum == InitNum /\ [][Next]_vars

SpecAnalysis == InitAnalysis /\ [][NextAnalysis]_vars

(***************************************************************************)
(* Properties of calculate_correlation.                                    *)
(***************************************************************************)
N == Len(columns)

\* The values of the i-th column asked for (of a call that did not panic).
ColVals(i) == df[columns[i + 1]].vals

HasNull(vals) == \E r \in 1..Len(vals) : vals[r] = Null

\* A column with a value, all of whose values are the same.
IsConstant(vals) ==
    LET v == Flatten(vals)
    IN  Len(v) >= 1 /\ \A r \in 1..Len(v) : v[r] = v[1]

\* The rows in which both columns have a value.
CompleteRows(x, y) == {r \in 1..Len(x) : x[r] # Null /\ y[r] # Null}

\* The values of x at the rows of a set, in row order.
AtRows(x, rows) ==
    LET f[r \in 0..Len(x)] ==
            IF r = 0 THEN << >>
            ELSE IF r \in rows THEN Append(f[r - 1], x[r]) ELSE f[r - 1]
    IN  f[Len(x)]

\* The pairs evaluated one after another, each result stored as it comes.
RECURSIVE SequentialFrom(_, _, _)
SequentialFrom(m, ps, k) ==
    IF k > Len(ps) THEN m
    ELSE SequentialFrom(PopulateCell(m, TaskResult(df, columns, ps[k])), ps, k + 1)

SequentialMatrix == SequentialFrom(InitialMatrix(N), Pairs(N), 1)

SequentialPanics == \E k \in 1..Len(Pairs(N)) : TaskPanics(df, columns, Pairs(N)[k])

\* C1 as stated: in the matrix the call returns, matrix[i][j] == matrix[j][i]
\* for every i and j, for every table.
C1_SymmetricUnderEq ==
    ret = "Ok" =>
        \A i \in 0..(N - 1) : \A j \in 0..(N - 1) :
            FEq(corr_matrix[i][j], corr_matrix[j][i])

\* C1: in the matrix the call returns, the cells (i, j) and (j, i) hold the
\* same f64, the coefficient of the pair: they are == unless that coefficient
\* is a NaN, and then both are the NaN.
C1_Symmetric ==
    ret = "Ok" =>
        \A i \in 0..(N - 1) : \A j \in 0..(N - 1) :
            /\ corr_matrix[i][j] = corr_matrix[j][i]
            /\ corr_matrix[i][j] # NaN =>
                   FEq(corr_matrix[i][j], corr_matrix[j][i])

\* A returned matrix with, off the diagonal, a NaN and a coefficient that is
\* neither a NaN nor 0.0.
C1_Witness ==
    /\ ret = "Ok"
    /\ \E i \in 0..(N - 1) : \E j \in 0..(N - 1) :
           i # j /\ corr_matrix[i][j] = NaN
    /\ \E i \in 0..(N - 1) : \E j \in 0..(N - 1) :
           i # j /\ corr_matrix[i][j] \notin {Zero, NaN}

\* C2: the matrix the call returns is n x n and every diagonal cell is 1.0,
\* also for a column that is constant, empty or holds nulls.
C2_DiagonalIsOne ==
    ret = "Ok" =>
        /\ DOMAIN corr_matrix = 0..(N - 1)
        /\ \A i \in 0..(N - 1) :
               /\ DOMAIN corr_matrix[i] = 0..(N - 1)
               /\ corr_matrix[i][i] = One

\* A returned matrix of two or more columns, one of them constant with a null.
C2_Witness ==
    /\ ret = "Ok"
    /\ N >= 2
    /\ \E i \in 0..(N - 1) : HasNull(ColVals(i)) /\ IsConstant(ColVals(i))

\* C3: the coefficient stored for a pair of which one column is constant is
\* 0.0.
C3_ConstantGivesZero ==
    ret = "Ok" =>
        \A i \in 0..(N - 1) : \A j \in 0..(N - 1) :
            (i # j /\ (IsConstant(ColVals(i)) \/ IsConstant(ColVals(j))))
                => corr_matrix[i][j] = Zero

\* C4: the coefficient stored for a pair is the coefficient of the values of
\* the rows in which both columns have a value, paired by row.
C4_PairwiseCompleteRows ==
    ret = "Ok" =>
        \A i \in 0..(N - 1) : \A j \in 0..(N - 1) :
            i < j =>
                LET x == ColVals(i)
                    y == ColVals(j)
                    rows == CompleteRows(x, y)
                IN  corr_matrix[i][j] =
                        UnwrapOr(PearsonOfVecs(AtRows(x, rows), AtRows(y, rows)), Zero)

\* C5: whatever the order in which the pair tasks ran, the matrix returned
\* is the one the pairs evaluated one after another give (and the call
\* panics only if that evaluation does).
C5_OrderIndependent ==
    /\ ret = "Ok" => (~ SequentialPanics /\ corr_matrix = SequentialMatrix)
    /\ ret = "Panic" => SequentialPanics

\* A returned matrix of three columns with two different coefficients off the
\* diagonal: its three tasks ran in some order.
C5_Witness ==
    /\ ret = "Ok"
    /\ N = 3
    /\ corr_matrix[0][1] # corr_matrix[0][2]

\* C6: while a pair task has not returned, the call is in its parallel phase
\* (or has panicked) and the matrix is as it was set up; the populate loop
\* runs only with every result collected.
C6_NoWriteBeforeFanIn ==
    (pc # "call" /\ DOMAIN results # 1..Len(pairs)) =>
        /\ pc \in {"parallel", "panicked"}
        /\ corr_matrix = InitialMatrix(N)

\* The parallel phase with one task returned, with a coefficient other than
\* 0.0, and another still to run.
C6_Witness ==
    /\ pc = "parallel"
    /\ DOMAIN results # 1..Len(pairs)
    /\ \E k \in DOMAIN results : results[k].corr # Zero

\* A column name that is no column of the table, or names one that is not f64.
BadColumn(name) == name \notin DOMAIN df \/ df[name].dtype # "f64"

\* C7: a call with a missing or non-f64 column returns an error: it neither
\* panics nor returns a matrix.
C7_BadColumnIsError ==
    (\E i \in 1..N : BadColumn(columns[i])) => ret \in {"none", "Err"}

\* C8: a call with no columns returns an error, not an empty matrix.
C8_EmptyInputIsError ==
    N = 0 => ret \in {"none", "Err"}

(***************************************************************************)
(* Properties of the holdings queries.                                     *)
(***************************************************************************)
\* The Symbols of the rows of a table (a null is no Symbol).
SymbolsIn(rows) == {rows[r].Symbol : r \in 1..Len(rows)} \ {NullStr}

\* C9: the Symbols of the result of get_unique_assets and those of the result
\* of get_overlap_assets are disjoint, and together they are the non-null
\* Symbols of the table.
C9_UniqueAndOverlapPartition ==
    /\ query.fn = "get_unique_assets" =>
           LET u == SymbolsIn(out.val.rows)
               o == SymbolsIn(get_overlap_assets(holdings, "Symbol").val.rows)
           IN  u \cap o = {} /\ u \cup o = SymbolsIn(holdings.rows)
    /\ query.fn = "get_overlap_assets" =>
           LET u == SymbolsIn(get_unique_assets(holdings).val.rows)
               o == SymbolsIn(out.val.rows)
           IN  u \cap o = {} /\ u \cup o = SymbolsIn(holdings.rows)

\* get_overlap_assets has returned a Symbol, of a table of which
\* get_unique_assets returns another.
C9_Witness ==
    /\ query.fn = "get_overlap_assets"
    /\ SymbolsIn(out.val.rows) # {}
    /\ SymbolsIn(get_unique_assets(holdings).val.rows) # {}

\* C10: filter_etfs with an empty list returns the table it was given: the
\* same rows in the same order.
C10_EmptyListIsIdentity ==
    (query.fn = "filter_etfs" /\ Len(query.etf_symbols) = 0) => out = Ok(holdings)

\* filter_etfs has returned for an empty list and a table with rows of two
\* ETFs and a row with no ETF.
C10_Witness ==
    /\ query.fn = "filter_etfs"
    /\ Len(query.etf_symbols) = 0
    /\ out.ok
    /\ {out.val.rows[r].ETF : r \in 1..Len(out.val.rows)} = EtfValues

\* The ETF of a row is, but for case, a member of the list.
Allowed(row, etf_symbols) ==
    /\ row.ETF # NullStr
    /\ \E i \in 1..Len(etf_symbols) : Upper(row.ETF) = Upper(etf_symbols[i])

\* The position of a row in the table (the Name of a row is its own).
RowNumber(d, row) == CHOOSE r \in 1..Len(d.rows) : d.rows[r] = row

\* rows are some of the rows of d, each once, in the order of d.
InOrderOf(d, rows) ==
    /\ \A k \in 1..Len(rows) : \E r \in 1..Len(d.rows) : d.rows[r] = rows[k]
    /\ \A k \in 1..Len(rows) : \A l \in 1..Len(rows) :
           k < l => RowNumber(d, rows[k]) < RowNumber(d, rows[l])

\* C11: filter_etfs with a non-empty list returns the columns of the table
\* and exactly its rows whose ETF is not null and, upper-cased, is the
\* upper-cased form of a member of the list, in their order in the table; the
\* table itself is as it was.
C11_FilterKeepsAllowedRows ==
    [][(query'.fn = "filter_etfs" /\ Len(query'.etf_symbols) > 0) =>
          /\ holdings' = holdings
          /\ out'.ok
          /\ out'.val.cols = holdings.cols
          /\ InOrderOf(holdings, out'.val.rows)
          /\ \A r \in 1..Len(holdings.rows) :
                 Allowed(holdings.rows[r], query'.etf_symbols)
                     <=> \E k \in 1..Len(out'.val.rows) :
                             out'.val.rows[k] = holdings.rows[r]]_vars

\* filter_etfs has returned two rows whose ETFs are written in another case
\* than the members of the list, and has dropped a row with a null ETF.
C11_Witness ==
    /\ query.fn = "filter_etfs"
    /\ Len(query.etf_symbols) > 0
    /\ Len(out.val.rows) = 2
    /\ \A k \in 1..2 : \A i \in 1..Len(query.etf_symbols) :
           out.val.rows[k].ETF # query.etf_symbols[i]
    /\ \E r \in 1..Len(holdings.rows) : holdings.rows[r].ETF = NullStr

\* The rows of the table with a Symbol, and the ETFs they name.
RowsOf(symbol) == {r \in 1..Len(holdings.rows) : holdings.rows[r].Symbol = symbol}

EtfsOf(symbol) == {holdings.rows[r].ETF : r \in RowsOf(symbol)}

Aggregating == query.fn \in {"aggregate_assets", "get_asset_mapping"}

\* C12: the result of aggregate_assets, get_asset_mapping and
\* get_overlap_assets has one row for each Symbol it keeps (every Symbol of
\* the table for the first two), and the ETF_Count of a row, of a Symbol whose
\* rows all name an ETF, is the number of different ETFs those rows name.
C12_OneRowPerSymbolWithDistinctCount ==
    (Aggregating \/ query.fn = "get_overlap_assets") =>
        LET rows == out.val.rows
        IN  /\ out.ok
            /\ \A k \in 1..Len(rows) : \A l \in 1..Len(rows) :
                   k # l => rows[k].Symbol # rows[l].Symbol
            /\ \A k \in 1..Len(rows) : RowsOf(rows[k].Symbol) # {}
            /\ Aggregating =>
                   \A r \in 1..Len(holdings.rows) :
                       \E k \in 1..Len(rows) : rows[k].Symbol = holdings.rows[r].Symbol
            /\ \A k \in 1..Len(rows) :
                   NullStr \notin EtfsOf(rows[k].Symbol) =>
                       rows[k].ETF_Count = Cardinality(EtfsOf(rows[k].Symbol))

\* aggregate_assets has returned a row with ETF_Count 1 for a Symbol that two
\* rows of the table hold, both of one ETF.
C12_Witness ==
    /\ query.fn = "aggregate_assets"
    /\ \E k \in 1..Len(out.val.rows) :
           /\ out.val.rows[k].ETF_Count = 1
           /\ out.val.rows[k].Symbol # NullStr
           /\ NullStr \notin EtfsOf(out.val.rows[k].Symbol)
           /\ Cardinality(RowsOf(out.val.rows[k].Symbol)) = 2

C14_UniqueAssetsRows ==
    query.fn = "get_unique_assets" =>
        LET cols == <<"Symbol", "Name", "Weight", "ETF">>
            rows == out.val.rows
            kept == {r \in 1..Len(holdings.rows) :
                        \E k \in 1..Len(rows) :
                            rows[k] = Select(holdings, cols).rows[r]}
        IN  /\ out.ok
            /\ out.val.cols = cols
            /\ \A k \in 1..Len(rows) : DOMAIN rows[k] = {"Symbol", "Name", "Weight", "ETF"}
            /\ InOrderOf(Select(holdings, cols), rows)
            /\ \A r \in 1..Len(holdings.rows) :
                   LET symbol == holdings.rows[r].Symbol
                   IN  /\ symbol = NullStr => r \notin kept
                       /\ (symbol # NullStr /\ NullStr \notin EtfsOf(symbol)) =>
                              (r \in kept <=> Cardinality(EtfsOf(symbol)) = 1)

\* get_unique_assets has returned the first and the third row of a table
\* with a fifth column, without the second.
C14_Witness ==
    /\ query.fn = "get_unique_assets"
    /\ Len(holdings.cols) = 5
    /\ Len(holdings.rows) = 3
    /\ Len(out.val.rows) = 2
    /\ out.val.rows[1].Name = holdings.rows[1].Name
    /\ out.val.rows[2].Name = holdings.rows[3].Name

\* The members of a set of ETFs, each once, in the order of a list of them.
Listed(S, etf_order) ==
    LET f[i \in 0..Len(etf_order)] ==
            IF i = 0 THEN << >>
            ELSE IF etf_order[i] \in S THEN Append(f[i - 1], etf_order[i])
            ELSE f[i - 1]
    IN  f[Len(etf_order)]

\* C15: in a row get_overlap_assets returns, of a Symbol whose rows all name
\* an ETF, ETFs is the different ETFs that hold the Symbol, each once, in
\* some order, joined by ", " (as many tokens as ETF_Count), also for a table
\* that holds a pair of ETF and Symbol in two rows.
C15_EtfsListsEachEtfOnce ==
    query.fn = "get_overlap_assets" =>
        \A k \in 1..Len(out.val.rows) :
            LET row == out.val.rows[k]
            IN  (row.Symbol # NullStr /\ NullStr \notin EtfsOf(row.Symbol)) =>
                    /\ row.ETF_Count = Cardinality(EtfsOf(row.Symbol))
                    /\ \E etf_order \in EtfOrders :
                           row.ETFs = Join(Listed(EtfsOf(row.Symbol), etf_order), ", ")

\* The expanded shape of the overlap of the table: a row for each row of the
\* table whose Symbol more than one ETF holds, with the count of its Symbol.
ExpandedColumns == <<"Symbol", "Name", "ETF_Count", "Weight", "ETF">>

ExpandedRows ==
    {[Symbol |-> holdings.rows[r].Symbol,
      Name |-> holdings.rows[r].Name,
      ETF_Count |-> Cardinality(EtfsOf(holdings.rows[r].Symbol)),
      Weight |-> holdings.rows[r].Weight,
      ETF |-> holdings.rows[r].ETF] :
        r \in {q \in 1..Len(holdings.rows) :
                  Cardinality(EtfsOf(holdings.rows[q].Symbol)) > 1}}

\* C16: the overlap query can be asked for the expanded shape: for some
\* argument it returns, of the table, the columns Symbol, Name, ETF_Count,
\* Weight and ETF and one row for each row of the table whose Symbol more than
\* one ETF holds.
C16_OverlapHasExpandedShape ==
    (query.fn = "get_overlap_assets" /\ ExpandedRows # {}) =>
        \E sort_by \in SortModes :
            LET result == get_overlap_assets(holdings, sort_by).val
            IN  /\ result.cols = ExpandedColumns
                /\ Len(result.rows) = Cardinality(ExpandedRows)
                /\ {result.rows[k] : k \in 1..Len(result.rows)} = ExpandedRows

(***************************************************************************)
(* Properties of the command line and the config file.                     *)
(***************************************************************************)
OptionFields == {"data_dir", "output", "etfs"}

ColumnFields == {"symbol_col", "name_col", "weight_col", "shares_col", "number_col"}

\* The value the config file gives a field.
ConfigValue(f) == IF f \in ColumnFields THEN config.columns[f] ELSE config[f]

\* C17: after the merge, a field the user wrote on the command line has the
\* value written, whatever the config file holds; a field the user did not
\* write has the value of the config file, or its default if the config file
\* has none.
C17_CliHasPriority ==
    cpc = "merged" =>
        /\ \A f \in OptionFields \cup ColumnFields :
               args[f] = IF given[f].some THEN given[f] ELSE ConfigValue(f)
        /\ args.function =
               IF given.function.some THEN given.function.val
               ELSE OrDefault(config.function, "summary")
        /\ args.sort_by =
               IF given.sort_by.some THEN given.sort_by.val
               ELSE OrDefault(config.sort_by, "symbol")
        /\ \A f \in {"force", "verbose"} :
               args[f] = IF given[f] THEN TRUE ELSE (config[f] = Some(TRUE))

(***************************************************************************)
(* C18: export_dataframe overwrites a file that was there only with force  *)
(* or after an answer of y or yes (in any case of letters, with whitespace *)
(* around it); with a file, without force and with any other answer it     *)
(* returns Ok(false) and the file is as it was; such a yes is never taken  *)
(* for a no; and it returns Ok(true) only with the file written.           *)
(***************************************************************************)
YesLines ==
    {<<"y", "\n">>, <<"Y", "\n">>, <<"y">>, <<"\t", "y", "\n">>,
     <<" ", "Y", "e", "s", " ", "\r", "\n">>, <<"Y", "E", "S", "\n">>}

Answered == response # NoResponse

C18_NoOverwriteWithoutConsent ==
    /\ (before # "absent" /\ file # before) =>
            (force \/ (Answered /\ response \in YesLines))
    /\ (before # "absent" /\ ~ force /\ Answered /\ response \notin YesLines) =>
            (xpc = "done" /\ xret = "Ok(false)" /\ file = before)
    /\ (Answered /\ response \in YesLines) => xret # "Ok(false)"
    /\ xret = "Ok(true)" => (xpc = "done" /\ file \in {"csv", "parquet"})

\* A file was there, force was not given, the answer was " Yes " and the
\* file was written as CSV.
C18_Witness ==
    /\ before = "old"
    /\ ~ force
    /\ response = <<" ", "Y", "e", "s", " ", "\r", "\n">>
    /\ file = "csv"
    /\ xret = "Ok(true)"

(***************************************************************************)
(* C19: a run of main with neither --data-dir nor --import loads nothing,  *)
(* takes no function's branch and writes no file, and when it is over it   *)
(* has failed with "Either --data-dir (-d) or --import (-i) must be        *)
(* specified".                                                             *)
(***************************************************************************)
Running == mpc # "idle"

Over == mpc = "done"

Written == file # before

C19_NoSourceFailsFirst ==
    (Running /\ ~ given.data_dir.some /\ ~ given.import.some) =>
        /\ loaded = "none"
        /\ dispatched = "none"
        /\ ~ Written
        /\ xpc = "idle"
        /\ mret \in {NotReturned, ErrOther("Either --data-dir (-d) or --import (-i) must be specified")}
        /\ Over => mret # NotReturned

\* A run for compare with --etfs and --output, but with no source, over a
\* file that is there, has failed.
C19_Witness ==
    /\ Over
    /\ ~ given.data_dir.some /\ ~ given.import.some
    /\ given.function = Some("compare")
    /\ given.output.some /\ given.etfs.some
    /\ before = "old"
    /\ mret = ErrOther("Either --data-dir (-d) or --import (-i) must be specified")

(***************************************************************************)
(* C20: a run of main for the function compare that got as far as the      *)
(* function fails without --etfs with "Compare function requires --etfs to *)
(* be specified" and, with --etfs, without --output with "Compare function *)
(* requires --output (-o) to be specified", and writes no file.            *)
(***************************************************************************)
C20_CompareRequiresEtfsAndOutput ==
    (Over /\ given.function = Some("compare") /\ dispatched # "none") =>
        /\ ~ given.etfs.some =>
               /\ mret = ErrOther("Compare function requires --etfs to be specified")
               /\ ~ Written
        /\ (given.etfs.some /\ ~ given.output.some) =>
               /\ mret = ErrOther("Compare function requires --output (-o) to be specified")
               /\ ~ Written

(***************************************************************************)
(* C21: a run of main with neither --data-dir nor --import, in a directory *)
(* whose .etf_analyzer.toml sets data_dir, does not fail for want of a     *)
(* data source: it goes on to load from the data directory.                *)
(***************************************************************************)
ConfiguredDataDir ==
    /\ Running
    /\ ~ given.data_dir.some /\ ~ given.import.some
    /\ config.data_dir.some

C21_ConfigFileSuppliesDataDir ==
    (ConfiguredDataDir /\ Over) =>
        /\ mret # ErrOther("Either --data-dir (-d) or --import (-i) must be specified")
        /\ (mret = OkUnit => loaded = "data_dir")

(***************************************************************************)
(* C29: a run of main with --etfs in which the filter leaves no row fails  *)
(* with "No data found for the specified ETFs. ..." with no function's     *)
(* branch taken and no file created or overwritten.                        *)
(***************************************************************************)
C29_EmptyFilterFailsBeforeDispatch ==
    (Running /\ given.etfs.some /\ matched = "zero") =>
        /\ Over
        /\ mret = ErrOther("No data found for the specified ETFs. Check that ETF symbols are correct.")
        /\ dispatched = "none"
        /\ xpc = "idle"
        /\ ~ Written

\* A run for export with --force over a file that is there, whose filter
\* left nothing, has failed.
C29_Witness ==
    /\ Over
    /\ given.etfs.some /\ matched = "zero"
    /\ given.function = Some("export")
    /\ given.output.some /\ given.force
    /\ file = "old"
    /\ loaded = "data_dir"
    /\ mret = ErrOther("No data found for the specified ETFs. Check that ETF symbols are correct.")

(***************************************************************************)
(* C25: for n columns the tasks of calculate_correlation are one for every *)
(* pair (i, j) with 0 <= i < j < n and no other, n * (n - 1) / 2 in all;   *)
(* each task returns the coefficient of its own pair, and the returned     *)
(* matrix holds that one coefficient at [i][j] and at [j][i].              *)
(***************************************************************************)
UnorderedPairs == {<<i, j>> \in (0..(N - 1)) \X (0..(N - 1)) : i < j}

PairsAreSet == pc \in {"parallel", "populate", "done", "panicked"}

C25_OneTaskPerUnorderedPair ==
    PairsAreSet =>
        /\ Len(pairs) = (N * (N - 1)) \div 2
        /\ {pairs[k] : k \in 1..Len(pairs)} = UnorderedPairs
        /\ DOMAIN results \subseteq 1..Len(pairs)
        /\ \A k \in DOMAIN results : results[k].pair = pairs[k]
        /\ ret = "Ok" =>
               \A k \in 1..Len(pairs) :
                   /\ k \in DOMAIN results
                   /\ corr_matrix[pairs[k][1]][pairs[k][2]] = results[k].corr
                   /\ corr_matrix[pairs[k][2]][pairs[k][1]] = results[k].corr

\* A returned matrix of three columns: three tasks, and a coefficient that
\* is not 0.0 in both of its cells.
C25_Witness ==
    /\ ret = "Ok"
    /\ N = 3
    /\ Len(pairs) = 3
    /\ \E k \in 1..3 :
           /\ results[k].corr # Zero
           /\ corr_matrix[pairs[k][2]][pairs[k][1]] = results[k].corr

(***************************************************************************)
(* C26: a call on f64 columns does not panic, and in the matrix it returns *)
(* the cell of two columns that do not have as many values (nulls apart),  *)
(* or that have no value at all, is 0.0.                                   *)
(***************************************************************************)
Values(vals) == {r \in 1..Len(vals) : vals[r] # Null}

AllColumnsAreF64 ==
    \A i \in 1..N : columns[i] \in DOMAIN df /\ df[columns[i]].dtype = "f64"

C26_UnequalOrEmptyGivesZero ==
    /\ (pc # "idle" /\ AllColumnsAreF64) => ret # "Panic"
    /\ ret = "Ok" =>
           \A i \in 0..(N - 1) : \A j \in 0..(N - 1) :
               (/\ i # j
                /\ \/ Cardinality(Values(ColVals(i))) # Cardinality(Values(ColVals(j)))
                   \/ Values(ColVals(i)) \cup Values(ColVals(j)) = {})
                   => corr_matrix[i][j] = Zero

\* A returned matrix with a pair of columns of three and two values that
\* differ in each of them, and a pair of columns without a value.
C26_Witness ==
    /\ ret = "Ok"
    /\ \E i \in 0..(N - 1) : \E j \in 0..(N - 1) :
           /\ Cardinality(Values(ColVals(i))) = 3
           /\ Cardinality(Values(ColVals(j))) = 2
           /\ ~ IsConstant(ColVals(i)) /\ ~ IsConstant(ColVals(j))
           /\ corr_matrix[i][j] = Zero

(***************************************************************************)
(* C22: get_etf_comparison fails when no row of the table is of an ETF     *)
(* asked for (in any case of letters); else its rows are the Symbols of    *)
(* those rows, each once, ascending; its columns are Symbol and then the   *)
(* ETFs asked for, upper-cased, in the order they were first asked for;    *)
(* and the cell of a Symbol and an ETF is the Weight of a row of that      *)
(* Symbol and that ETF if there is one, and "N/A" if there is none.        *)
(***************************************************************************)
Asked == {Upper(query.etfs[i]) : i \in 1..Len(query.etfs)}

FirstAsked(name) == Min({i \in 1..Len(query.etfs) : Upper(query.etfs[i]) = name})

Matching ==
    {r \in 1..Len(holdings.rows) :
        holdings.rows[r].ETF # NullStr /\ Upper(holdings.rows[r].ETF) \in Asked}

Held(symbol, name) ==
    {r \in Matching : /\ holdings.rows[r].Symbol = symbol
                      /\ Upper(holdings.rows[r].ETF) = name}

C22_ComparisonTable ==
    query.fn = "get_etf_comparison" =>
        IF Matching = {} THEN ~ out.ok
        ELSE LET cols == out.val.cols
                 rows == out.val.rows
             IN  /\ out.ok
                 /\ {rows[i].Symbol : i \in 1..Len(rows)}
                        = {holdings.rows[r].Symbol : r \in Matching} \ {NullStr}
                 /\ \A i \in 1..Len(rows) : \A j \in 1..Len(rows) :
                        i < j => Rank(rows[i].Symbol) < Rank(rows[j].Symbol)
                 /\ cols[1] = "Symbol"
                 /\ {cols[k] : k \in 2..Len(cols)} = Asked
                 /\ \A k \in 2..Len(cols) : \A l \in 2..Len(cols) :
                        k < l => FirstAsked(cols[k]) < FirstAsked(cols[l])
                 /\ \A i \in 1..Len(rows) : \A k \in 2..Len(cols) :
                        IF Held(rows[i].Symbol, cols[k]) = {}
                        THEN rows[i][cols[k]] = "N/A"
                        ELSE \E r \in Held(rows[i].Symbol, cols[k]) :
                                 rows[i][cols[k]] = holdings.rows[r].Weight

\* A comparison of spy and QQQ over a table that holds AAPL in SPY and in
\* qqq and MSFT in qqq only: two rows, a weight of a lower-case ETF and an
\* "N/A".
C22_Witness ==
    /\ query.fn = "get_etf_comparison"
    /\ query.etfs = <<"spy", "QQQ">>
    /\ out.ok
    /\ Len(out.val.rows) = 2
    /\ out.val.cols = <<"Symbol", "SPY", "QQQ">>
    /\ out.val.rows[1].Symbol = "AAPL"
    /\ out.val.rows[1].SPY # "N/A" /\ out.val.rows[1].QQQ # "N/A"
    /\ out.val.rows[2].SPY = "N/A" /\ out.val.rows[2].QQQ # "N/A"

(***************************************************************************)
(* C30: get_etf_summary returns the columns ETF, Asset_Count and Assets    *)
(* and one row for each ETF of the table, in ascending order of ETF; the   *)
(* Asset_Count of a row is the number of the table's rows of that ETF      *)
(* whose Symbol is not null, and its Assets is the Symbols of those rows,  *)
(* in their order, joined by ", ": as many tokens as the Asset_Count.      *)
(***************************************************************************)
RowsOfEtf(etf) ==
    {r \in 1..Len(holdings.rows) :
        holdings.rows[r].ETF = etf /\ holdings.rows[r].Symbol # NullStr}

SymbolsAt(rows) ==
    LET f[r \in 0..Len(holdings.rows)] ==
            IF r = 0 THEN << >>
            ELSE IF r \in rows THEN Append(f[r - 1], holdings.rows[r].Symbol)
            ELSE f[r - 1]
    IN  f[Len(holdings.rows)]

C30_OneRowPerEtfWithCount ==
    query.fn = "get_etf_summary" =>
        LET rows == out.val.rows
        IN  /\ out.ok
            /\ out.val.cols = <<"ETF", "Asset_Count", "Assets">>
            /\ {rows[i].ETF : i \in 1..Len(rows)}
                   = {holdings.rows[r].ETF : r \in 1..Len(holdings.rows)}
            /\ \A i \in 1..Len(rows) : \A j \in 1..Len(rows) :
                   i < j => Rank(rows[i].ETF) < Rank(rows[j].ETF)
            /\ \A i \in 1..Len(rows) :
                   /\ rows[i].Asset_Count = Cardinality(RowsOfEtf(rows[i].ETF))
                   /\ Len(SymbolsAt(RowsOfEtf(rows[i].ETF))) = rows[i].Asset_Count
                   /\ rows[i].Assets = Join(SymbolsAt(RowsOfEtf(rows[i].ETF)), ", ")

\* A summary of a table of an ETF with two Symbols and a row whose Symbol is
\* null.
C30_Witness ==
    /\ query.fn = "get_etf_summary"
    /\ out.ok
    /\ \E i \in 1..Len(out.val.rows) :
           /\ out.val.rows[i].Asset_Count = 2
           /\ out.val.rows[i].Assets = "AAPL, MSFT"
           /\ Cardinality({r \in 1..Len(holdings.rows) :
                              holdings.rows[r].ETF = out.val.rows[i].ETF}) = 3

(***************************************************************************)
(* C23: import_dataframe reads the exact path when it exists, whether or   *)
(* not the path with .parquet exists too; when the exact path does not     *)
(* exist and has no extension and the one with .parquet exists, it reads   *)
(* that; in every other case it returns an "Import file does not exist"    *)
(* error and reads nothing.                                                *)
(***************************************************************************)
Resolved == ipc \in {"read", "done"}

IsNotFound(r) == "err" \in DOMAIN r /\ r.err = "Import file does not exist"

C23_ImportResolvesPath ==
    /\ actual_path # "none" => Resolved
    /\ Resolved =>
           IF "exact" \in on_disk
           THEN actual_path = "exact" /\ ~ IsNotFound(iret)
           ELSE IF ipath = None /\ "parquet" \in on_disk
                THEN actual_path = "parquet" /\ ~ IsNotFound(iret)
                ELSE actual_path = "none" /\ IsNotFound(iret) /\ ipc = "done"

\* Both files are there, the path has no extension, and the exact path was
\* read (as Parquet).
C23_Witness ==
    /\ ipc = "done"
    /\ ipath = None
    /\ on_disk = {"exact", "parquet"}
    /\ actual_path = "exact"
    /\ iret = [ok |-> TRUE, format |-> "parquet"]

(***************************************************************************)
(* C24: load_multiple_holdings returns an error for no path and an error,  *)
(* never a table of some of the files, when a file does not load; when     *)
(* every file loads it returns the files' rows, file after file in the     *)
(* order of the paths, in whatever order the loads finished.               *)
(***************************************************************************)
NumFiles == Len(files)

NotLoading == {k \in 1..NumFiles : ~ files[k].readable}

\* The rows of the files from the k-th on, in the order of the paths.
RECURSIVE RowsFrom(_)
RowsFrom(k) ==
    IF k > NumFiles THEN << >>
    ELSE [r \in 1..files[k].height |-> [path |-> k, row |-> r]] \o RowsFrom(k + 1)

Returned(r) == r # NotReturned

IsOk(r) == "ok" \in DOMAIN r /\ r.ok

C24_AllOrNothingInPathOrder ==
    (lpc = "done") =>
        /\ Returned(lret)
        /\ NumFiles = 0 => ~ IsOk(lret)
        /\ NotLoading # {} => ~ IsOk(lret)
        /\ (NumFiles > 0 /\ NotLoading = {}) =>
               (IsOk(lret) /\ lret.val.rows = RowsFrom(1))

\* The same with the case the claim leaves out: files that load as tables
\* of different columns are not stacked, and the call returns an error.
SameColumns == \A k \in 1..NumFiles : files[k].cols = files[1].cols

C24_AllOrNothingInPathOrderOfOneSchema ==
    (lpc = "done") =>
        /\ Returned(lret)
        /\ NumFiles = 0 => ~ IsOk(lret)
        /\ NotLoading # {} => ~ IsOk(lret)
        /\ (NumFiles > 0 /\ NotLoading = {} /\ ~ SameColumns) => ~ IsOk(lret)
        /\ (NumFiles > 0 /\ NotLoading = {} /\ SameColumns) =>
               /\ IsOk(lret)
               /\ lret.val.cols = files[1].cols
               /\ lret.val.rows = RowsFrom(1)

\* Three files of a row each, and their rows in the order of the paths.
C24_Witness ==
    /\ lpc = "done"
    /\ NumFiles = 3
    /\ IsOk(lret)
    /\ Len(lret.val.rows) = 3
    /\ lret.val.rows[1].path = 1 /\ lret.val.rows[3].path = 3

(***************************************************************************)
(* C27: in the table load_holdings_csv_with_config returns, a row whose    *)
(* Symbol in the file was null, empty or "n/a" in any case of letters, and *)
(* that has a value in the number column, has the Symbol "{ETF}-{No}" of   *)
(* the file's upper-cased ETF name and that value; every other row with a  *)
(* Symbol in the file keeps it; the number column is gone; and ETF is the  *)
(* first column and holds the file's ETF name in every row.                *)
(***************************************************************************)
Loaded == hret # NotReturned

\* The column of the file that is the Symbol column of the result, if any.
SourceSymbolColumn ==
    IF HasColumn(csv, column_config.symbol_col) THEN column_config.symbol_col
    ELSE "Symbol"

HasSourceSymbol == HasColumn(csv, SourceSymbolColumn)

Missing(symbol) == symbol \in {NullStr, "", "n/a", "N/A"}

Numbered(r) ==
    HasColumn(csv, column_config.number_col)
        /\ csv.rows[r][column_config.number_col] # NullStr

ExpectedEtf == IF csv.name.stem = "spy" THEN "SPY" ELSE "QQQ"

NumberOf(r) == IF csv.rows[r][column_config.number_col] = "1" THEN "1" ELSE "2"

IsErr(r) == "err" \in DOMAIN r

C28_OneWeightPerEtf ==
    /\ portfolio # NoPortfolio => Len(portfolio.weights) = Len(portfolio.etfs)
    /\ (method.fn = "with_weights" /\ Len(method.weights) # Len(method.etfs)) =>
           IsErr(pres) /\ portfolio = prior
    /\ method.fn = "calculate_portfolio_return" =>
           /\ portfolio = prior
           /\ Len(method.returns) # Len(portfolio.etfs) => IsErr(pres)

\* A Portfolio of SPY and QQQ that was given its data has refused returns
\* of one value.
C28_Witness ==
    /\ portfolio # NoPortfolio
    /\ portfolio.etfs = <<"SPY", "QQQ">>
    /\ Len(portfolio.weights) = 2
    /\ portfolio.data # None
    /\ method.fn = "calculate_portfolio_return"
    /\ Len(method.returns) = 1
    /\ IsErr(pres)

=============================================================================
